---- MODULE Spec2Model ----
(***************************************************************************)
(* Model of the text layout and editing core of journal.py: wrap_text,     *)
(* the multi-line editor get_multiline_input (buffer, cursor, scrolling)   *)
(* and the two screens that open an editing session on the entry store.    *)
(* Strings are sequences of one-character strings.                         *)
(***************************************************************************)
EXTENDS Integers, Sequences, FiniteSets, TLC

\* ------------------------------------------------------------------ bounds
\* longest text handed to wrap_text in the wrapping specification
MaxLen == 6
\* largest wrapping width tried in the wrapping specification
MaxWidth == 4
\* largest number of characters (line breaks included) held by the editor
MaxChars == 4
\* largest editor width and height (edit_w, edit_h) of the terminal
MaxEditW == 3
MaxEditH == 2
\* largest display row and scroll offset, and largest height, handed to
\* redraw in the redraw specification
MaxRow == 9
MaxHeight == 3
\* most logical lines of a document shown by the entry viewer, and most rows
\* of its content area
MaxDocLines == 3
MaxViewRows == 2
\* longest text handed to the inline renderer, longest header text, largest
\* start column and largest max_width in the rendering specification
MaxInlineLen == 5
MaxHeaderText == 2
MaxX == 1
MaxRenderWidth == 4
\* entries added and names in one tag list in the store specification
MaxEntryId == 2
MaxTagList == 2
\* entries ever added in the navigation specification, and the tallest
\* terminal (curses.LINES) there
MaxListEntries == 3
MaxLines == 8

\* ------------------------------------------------------------- characters
SP == " "
NL == "\n"
\* the letters typed in the model, standing for printable non-space keys
Letters == {"a", "b"}
Chars == Letters \cup {SP}

\* all strings over S of length at most n
RECURSIVE StringsUpTo(_, _)
StringsUpTo(S, n) ==
    IF n = 0 THEN {<<>>}
    ELSE LET shorter == StringsUpTo(S, n - 1)
         IN  shorter \cup {Append(s, c) : s \in {t \in shorter : Len(t) = n - 1}, c \in S}

\* ---------------------------------------------------------------- helpers
\* str.split(sep): the pieces between the separators, empty pieces kept
RECURSIVE split_from(_, _, _, _, _)
split_from(text, sep, i, word, words) ==
    IF i > Len(text) THEN Append(words, word)
    ELSE IF text[i] = sep THEN split_from(text, sep, i + 1, <<>>, Append(words, word))
    ELSE split_from(text, sep, i + 1, Append(word, text[i]), words)

split(text, sep) == split_from(text, sep, 1, <<>>, <<>>)

\* sep.join(parts)
RECURSIVE join(_, _)
join(sep, parts) ==
    IF Len(parts) = 0 THEN <<>>
    ELSE IF Len(parts) = 1 THEN parts[1]
    ELSE parts[1] \o <<sep>> \o join(sep, Tail(parts))

\* ---------------------------------------------------------------- wrap_text
\* the mutant cuts the word without emitting the pending segment
RECURSIVE hard_split_mut(_, _, _, _)
hard_split_mut(word, width, out, current_line) ==
    IF Len(word) > width
    THEN hard_split_mut(SubSeq(word, width + 1, Len(word)), width,
                        Append(out, SubSeq(word, 1, width)), <<>>)
    ELSE [out |-> out, current_line |-> current_line, word |-> word]

\* the inner while loop: a word longer than width is cut into width-sized
\* chunks, the pending segment being flushed first
RECURSIVE hard_split(_, _, _, _)
hard_split(word, width, out, current_line) ==
    IF Len(word) > width
    THEN hard_split(SubSeq(word, width + 1, Len(word)), width,
                    Append(IF current_line # <<>> THEN Append(out, current_line) ELSE out,
                           SubSeq(word, 1, width)),
                    <<>>)
    ELSE [out |-> out, current_line |-> current_line, word |-> word]

\* the mutant joins a word whenever the segment without the space fits
fits_mut(current_line, word, width) == Len(current_line) + Len(word) <= width

\* the mutant starts a new segment when the word would fit exactly
fits_strict_mut(current_line, word, width) == Len(current_line) + 1 + Len(word) < width

\* the test that lets a word join the current segment
fits(current_line, word, width) == Len(current_line) + 1 + Len(word) <= width

\* the mutant starts a new segment without emitting the one it ends
wrap_word_mut(out, current_line, word0, width) ==
    LET h == hard_split(word0, width, out, current_line)
    IN  IF h.current_line = <<>>
        THEN [out |-> h.out, current_line |-> h.word]
        ELSE IF fits(h.current_line, h.word, width)
        THEN [out |-> h.out, current_line |-> h.current_line \o <<SP>> \o h.word]
        ELSE [out |-> h.out, current_line |-> h.word]

\* one iteration of the for loop over the words
wrap_word(out, current_line, word0, width) ==
    LET h == hard_split(word0, width, out, current_line)
    IN  IF h.current_line = <<>>
        THEN [out |-> h.out, current_line |-> h.word]
        ELSE IF fits(h.current_line, h.word, width)
        THEN [out |-> h.out, current_line |-> h.current_line \o <<SP>> \o h.word]
        ELSE [out |-> Append(h.out, h.current_line), current_line |-> h.word]

RECURSIVE wrap_words(_, _, _, _, _)
wrap_words(words, i, out, current_line, width) ==
    IF i > Len(words) THEN [out |-> out, current_line |-> current_line]
    ELSE LET s == wrap_word(out, current_line, words[i], width)
         IN  wrap_words(words, i + 1, s.out, s.current_line, width)

\* the mutant returns no segment at all for a line that leaves none
wrap_result_mut(out) == out

\* the final "lines if lines else ['']"
wrap_result(out) == IF out # <<>> THEN out ELSE << <<>> >>

\* the mutant forgets the segment still pending when the words are used up
flush_mut(out, current_line) == out

\* the final "if current_line: lines.append(current_line)"
flush(out, current_line) ==
    IF current_line # <<>> THEN Append(out, current_line) ELSE out

wrap_text(text, width) ==
    IF width <= 0 THEN <<>>
    ELSE LET s == wrap_words(split(text, SP), 1, <<>>, <<>>, width)
         IN  wrap_result(flush(s.out, s.current_line))

\* ------------------------------------------------------------- the editor
\* key codes of the curses library named by the key loop
KEY_DOWN == 258
KEY_UP == 259
KEY_LEFT == 260
KEY_RIGHT == 261
KEY_HOME == 262
KEY_BACKSPACE == 263
KEY_DC == 330
KEY_ENTER == 343
KEY_END == 360
ESCAPE == 27
CTRL_C == 3
TAB == 9

\* the key codes getch delivers in the model: every code the key loop names,
\* two printable ones (space and "a"), and three codes no branch names
Keys == {ESCAPE, CTRL_C, KEY_BACKSPACE, 127, 8, KEY_DC, KEY_ENTER, 10, 13,
         KEY_LEFT, KEY_RIGHT, KEY_UP, KEY_DOWN, KEY_HOME, KEY_END,
         32, 97, TAB, 0, -1, 410}

\* chr(key) for the printable codes of Keys
chr(key) == CASE key = 32 -> SP [] key = 97 -> "a"

\* the mutant has no branch for key code 3: Ctrl+C then ends the session only
\* as a KeyboardInterrupt
branch_mut(key) ==
    IF key = ESCAPE THEN "escape"
    ELSE IF key \in {KEY_BACKSPACE, 127, 8} THEN "backspace"
    ELSE IF key \in {KEY_DC, 330} THEN "delete"
    ELSE IF key \in {KEY_ENTER, 10, 13} THEN "enter"
    ELSE IF key = KEY_LEFT THEN "left"
    ELSE IF key = KEY_RIGHT THEN "right"
    ELSE IF key = KEY_UP THEN "up"
    ELSE IF key = KEY_DOWN THEN "down"
    ELSE IF key = KEY_HOME THEN "home"
    ELSE IF key = KEY_END THEN "end"
    ELSE IF 32 <= key /\ key <= 126 THEN "printable"
    ELSE IF key = TAB THEN "tab"
    ELSE "ignored"

\* the mutant takes Ctrl+A (key 1) for Home as well
branch_ctrl_a_mut(key) ==
    IF key = ESCAPE THEN "escape"
    ELSE IF key = CTRL_C THEN "ctrl_c"
    ELSE IF key \in {KEY_BACKSPACE, 127, 8} THEN "backspace"
    ELSE IF key \in {KEY_DC, 330} THEN "delete"
    ELSE IF key \in {KEY_ENTER, 10, 13} THEN "enter"
    ELSE IF key = KEY_LEFT THEN "left"
    ELSE IF key = KEY_RIGHT THEN "right"
    ELSE IF key = KEY_UP THEN "up"
    ELSE IF key = KEY_DOWN THEN "down"
    ELSE IF key \in {KEY_HOME, 1} THEN "home"
    ELSE IF key = KEY_END THEN "end"
    ELSE IF 32 <= key /\ key <= 126 THEN "printable"
    ELSE IF key = TAB THEN "tab"
    ELSE "ignored"

\* the branch of the if/elif chain of the key loop that a key code takes
branch(key) ==
    IF key = ESCAPE THEN "escape"
    ELSE IF key = CTRL_C THEN "ctrl_c"
    ELSE IF key \in {KEY_BACKSPACE, 127, 8} THEN "backspace"
    ELSE IF key \in {KEY_DC, 330} THEN "delete"
    ELSE IF key \in {KEY_ENTER, 10, 13} THEN "enter"
    ELSE IF key = KEY_LEFT THEN "left"
    ELSE IF key = KEY_RIGHT THEN "right"
    ELSE IF key = KEY_UP THEN "up"
    ELSE IF key = KEY_DOWN THEN "down"
    ELSE IF key = KEY_HOME THEN "home"
    ELSE IF key = KEY_END THEN "end"
    ELSE IF 32 <= key /\ key <= 126 THEN "printable"
    ELSE IF key = TAB THEN "tab"
    ELSE "ignored"

\* the key codes of the model that take a branch
branch_keys(name) == {key \in Keys : branch(key) = name}

\* Python slices of a string s: s[:n] and s[n:]
prefix(s, n) == SubSeq(s, 1, n)
suffix(s, n) == SubSeq(s, n + 1, Len(s))

\* list.pop(i) and list.insert(i, x) with 0-based i
pop(ls, i) == SubSeq(ls, 1, i) \o SubSeq(ls, i + 2, Len(ls))
insert(ls, i, x) == SubSeq(ls, 1, i) \o <<x>> \o SubSeq(ls, i + 1, Len(ls))

\* the buffer: logical lines and the 0-based cursor
Buffer(ls, cl, cc) == [lines |-> ls, cursor_line |-> cl, cursor_col |-> cc]
NoBuffer == Buffer(<<>>, 0, 0)

\* lines[cursor_line] of a buffer
cur(b) == b.lines[b.cursor_line + 1]

\* str.splitlines() for texts whose only line break is "\n"
splitlines(text) ==
    LET parts == split(text, NL)
    IN  IF text = <<>> THEN <<>>
        ELSE IF parts[Len(parts)] = <<>> THEN SubSeq(parts, 1, Len(parts) - 1)
        ELSE parts

\* the buffer a session starts with
initial_buffer(initial_content) ==
    IF initial_content # <<>>
    THEN LET ls0 == splitlines(initial_content)
             ls == IF ls0 = <<>> THEN << <<>> >> ELSE ls0
         IN  Buffer(ls, Len(ls) - 1, Len(ls[Len(ls)]))
    ELSE Buffer(<< <<>> >>, 0, 0)

\* the mutant joins the lines but leaves the cursor at column 0
backspace_mut(b) ==
    IF b.cursor_col > 0
    THEN Buffer([b.lines EXCEPT ![b.cursor_line + 1] =
                     prefix(cur(b), b.cursor_col - 1) \o suffix(cur(b), b.cursor_col)],
                b.cursor_line, b.cursor_col - 1)
    ELSE IF b.cursor_line > 0
    THEN Buffer(pop([b.lines EXCEPT ![b.cursor_line] = b.lines[b.cursor_line] \o cur(b)],
                    b.cursor_line),
                b.cursor_line - 1, 0)
    ELSE b

\* the mutant removes the character under the cursor, not the one before it
backspace_under_mut(b) ==
    IF b.cursor_col > 0
    THEN Buffer([b.lines EXCEPT ![b.cursor_line + 1] =
                     prefix(cur(b), b.cursor_col) \o suffix(cur(b), b.cursor_col + 1)],
                b.cursor_line, b.cursor_col - 1)
    ELSE IF b.cursor_line > 0
    THEN Buffer(pop([b.lines EXCEPT ![b.cursor_line] = b.lines[b.cursor_line] \o cur(b)],
                    b.cursor_line),
                b.cursor_line - 1, Len(b.lines[b.cursor_line]))
    ELSE b

backspace(b) ==
    IF b.cursor_col > 0
    THEN Buffer([b.lines EXCEPT ![b.cursor_line + 1] =
                     prefix(cur(b), b.cursor_col - 1) \o suffix(cur(b), b.cursor_col)],
                b.cursor_line, b.cursor_col - 1)
    ELSE IF b.cursor_line > 0
    THEN Buffer(pop([b.lines EXCEPT ![b.cursor_line] = b.lines[b.cursor_line] \o cur(b)],
                    b.cursor_line),
                b.cursor_line - 1, Len(b.lines[b.cursor_line]))
    ELSE b

\* the mutant leaves the cursor at the start of the line after a merge
delete_mut(b) ==
    IF b.cursor_col < Len(cur(b))
    THEN Buffer([b.lines EXCEPT ![b.cursor_line + 1] =
                     prefix(cur(b), b.cursor_col) \o suffix(cur(b), b.cursor_col + 1)],
                b.cursor_line, b.cursor_col)
    ELSE IF b.cursor_line < Len(b.lines) - 1
    THEN Buffer(pop([b.lines EXCEPT ![b.cursor_line + 1] = cur(b) \o b.lines[b.cursor_line + 2]],
                    b.cursor_line + 1),
                b.cursor_line, 0)
    ELSE b

delete(b) ==
    IF b.cursor_col < Len(cur(b))
    THEN Buffer([b.lines EXCEPT ![b.cursor_line + 1] =
                     prefix(cur(b), b.cursor_col) \o suffix(cur(b), b.cursor_col + 1)],
                b.cursor_line, b.cursor_col)
    ELSE IF b.cursor_line < Len(b.lines) - 1
    THEN Buffer(pop([b.lines EXCEPT ![b.cursor_line + 1] = cur(b) \o b.lines[b.cursor_line + 2]],
                    b.cursor_line + 1),
                b.cursor_line, b.cursor_col)
    ELSE b

enter(b) ==
    LET new_line == suffix(cur(b), b.cursor_col)
    IN  Buffer(insert([b.lines EXCEPT ![b.cursor_line + 1] = prefix(cur(b), b.cursor_col)],
                      b.cursor_line + 1, new_line),
               b.cursor_line + 1, 0)

\* the mutant wraps to the start of the previous line
left_mut(b) ==
    IF b.cursor_col > 0 THEN Buffer(b.lines, b.cursor_line, b.cursor_col - 1)
    ELSE IF b.cursor_line > 0 THEN Buffer(b.lines, b.cursor_line - 1, 0)
    ELSE b

left(b) ==
    IF b.cursor_col > 0 THEN Buffer(b.lines, b.cursor_line, b.cursor_col - 1)
    ELSE IF b.cursor_line > 0
    THEN Buffer(b.lines, b.cursor_line - 1, Len(b.lines[b.cursor_line]))
    ELSE b

\* the mutant stops at the end of a line
right_mut(b) ==
    IF b.cursor_col < Len(cur(b)) THEN Buffer(b.lines, b.cursor_line, b.cursor_col + 1) ELSE b

right(b) ==
    IF b.cursor_col < Len(cur(b)) THEN Buffer(b.lines, b.cursor_line, b.cursor_col + 1)
    ELSE IF b.cursor_line < Len(b.lines) - 1 THEN Buffer(b.lines, b.cursor_line + 1, 0)
    ELSE b

min(x, y) == IF x <= y THEN x ELSE y

\* the mutant moves up without clamping the column
up_mut(b) ==
    IF b.cursor_line > 0 THEN Buffer(b.lines, b.cursor_line - 1, b.cursor_col) ELSE b

up(b) ==
    IF b.cursor_line > 0
    THEN Buffer(b.lines, b.cursor_line - 1, min(b.cursor_col, Len(b.lines[b.cursor_line])))
    ELSE b

\* the mutant opens a new line below the last one
down_mut(b) ==
    IF b.cursor_line < Len(b.lines) - 1
    THEN Buffer(b.lines, b.cursor_line + 1, min(b.cursor_col, Len(b.lines[b.cursor_line + 2])))
    ELSE Buffer(Append(b.lines, <<>>), b.cursor_line + 1, 0)

down(b) ==
    IF b.cursor_line < Len(b.lines) - 1
    THEN Buffer(b.lines, b.cursor_line + 1, min(b.cursor_col, Len(b.lines[b.cursor_line + 2])))
    ELSE b

home(b) == Buffer(b.lines, b.cursor_line, 0)

end(b) == Buffer(b.lines, b.cursor_line, Len(cur(b)))

\* the insertion shared by the printable and the Tab branch
insert_text(b, text) ==
    Buffer([b.lines EXCEPT ![b.cursor_line + 1] =
                prefix(cur(b), b.cursor_col) \o text \o suffix(cur(b), b.cursor_col)],
           b.cursor_line, b.cursor_col + Len(text))

printable(b, key) == insert_text(b, <<chr(key)>>)

spaces == <<SP, SP, SP, SP>>

\* the mutant inserts two spaces
tab_mut(b) == insert_text(b, <<SP, SP>>)

tab(b) == insert_text(b, spaces)

\* ------------------------------------------------------- display mapping
\* get_display_lines: the wrapped segments of all lines, in order
RECURSIVE get_display_lines(_, _)
get_display_lines(ls, w) ==
    IF ls = <<>> THEN <<>>
    ELSE (IF ls[1] = <<>> THEN << <<>> >> ELSE wrap_text(ls[1], w))
         \o get_display_lines(Tail(ls), w)

\* the mutant counts the rows of every line of the document
rows_before_mut(ls, n, w) == Len(get_display_lines(ls, w))

\* the first loop of get_cursor_display_pos: display rows of the first n lines
RECURSIVE rows_before(_, _, _)
rows_before(ls, n, w) ==
    IF n = 0 THEN 0
    ELSE rows_before(ls, n - 1, w)
         + (IF ls[n] = <<>> THEN 1 ELSE Len(wrap_text(ls[n], w)))

\* the mutant sends a column at the end of a segment's text to the next one
reaches_mut(chars_so_far, line_len, cc) == chars_so_far + line_len > cc

\* the test that stops the walk over the wrapped segments
reaches(chars_so_far, line_len, cc) == chars_so_far + line_len >= cc

\* the second loop: <<index of the segment, column in it>>, 0-based index i
RECURSIVE walk_segments(_, _, _, _)
walk_segments(wrapped, i, chars_so_far, cc) ==
    IF i >= Len(wrapped)
    THEN <<Len(wrapped) - 1, IF wrapped # <<>> THEN Len(wrapped[Len(wrapped)]) ELSE 0>>
    ELSE IF reaches(chars_so_far, Len(wrapped[i + 1]), cc)
    THEN <<i, cc - chars_so_far>>
    ELSE walk_segments(wrapped, i + 1, chars_so_far + Len(wrapped[i + 1]) + 1, cc)

\* <<display row, display column>> of the cursor (cl, cc), all 0-based
get_cursor_display_pos(ls, cl, cc, w) ==
    LET display_row == rows_before(ls, cl, w)
        current_line_text == ls[cl + 1]
    IN  IF current_line_text = <<>> THEN <<display_row, cc>>
        ELSE LET p == walk_segments(wrap_text(current_line_text, w), 0, 0, cc)
             IN  <<display_row + p[1], p[2]>>

\* the mutant misses the branch for a cursor below the window
redraw_mut(so, cursor_display_row, h, n) ==
    IF cursor_display_row - so < 0
    THEN [scroll_offset |-> cursor_display_row, adjustments |-> n + 1]
    ELSE [scroll_offset |-> so, adjustments |-> n]

\* the mutant scrolls down one row too few
redraw_short_mut(so, cursor_display_row, h, n) ==
    IF cursor_display_row - so < 0
    THEN [scroll_offset |-> cursor_display_row, adjustments |-> n + 1]
    ELSE IF cursor_display_row - so >= h
    THEN [scroll_offset |-> cursor_display_row - h, adjustments |-> n + 1]
    ELSE [scroll_offset |-> so, adjustments |-> n]

\* the mutant scrolls one row for each adjustment
RECURSIVE redraw_step_mut(_, _, _, _)
redraw_step_mut(so, cursor_display_row, h, n) ==
    IF cursor_display_row - so < 0
    THEN redraw_step_mut(so - 1, cursor_display_row, h, n + 1)
    ELSE IF cursor_display_row - so >= h
    THEN redraw_step_mut(so + 1, cursor_display_row, h, n + 1)
    ELSE [scroll_offset |-> so, adjustments |-> n]

\* redraw: the scroll offset it ends with and the adjustments it made, n
\* being the adjustments made before the call
RECURSIVE redraw(_, _, _, _)
redraw(so, cursor_display_row, h, n) ==
    LET cursor_screen_row == cursor_display_row - so
    IN  IF cursor_screen_row < 0 THEN redraw(cursor_display_row, cursor_display_row, h, n + 1)
        ELSE IF cursor_screen_row >= h
        THEN redraw(cursor_display_row - h + 1, cursor_display_row, h, n + 1)
        ELSE [scroll_offset |-> so, adjustments |-> n]

\* ------------------------------------------------------- markdown rendering
\* the backtick, written as a tilde: a string of the module cannot hold a
\* backtick
BT == "~"
Digits == {"0", "1", "2", "3", "4", "5", "6", "7", "8", "9"}

\* the number of leading characters of a line that are in S
RECURSIVE leading(_, _)
leading(line, S) ==
    IF line # <<>> /\ line[1] \in S THEN 1 + leading(Tail(line), S) ELSE 0

\* the header pattern: one to six "#", then whitespace, then the text
header_match(line) ==
    LET level == leading(line, {"#"})
    IN  1 <= level /\ level <= 6 /\ level < Len(line) /\ line[level + 1] = SP

\* the list pattern: an indent, then "-", "*" or digits and a dot, then
\* whitespace, then the text
list_match(line) ==
    LET indent == leading(line, {SP})
        rest == suffix(line, indent)
        digits == leading(rest, Digits)
        marker == IF rest # <<>> /\ rest[1] \in {"-", "*"} THEN 1
                  ELSE IF digits >= 1 /\ digits < Len(rest) /\ rest[digits + 1] = "."
                  THEN digits + 1
                  ELSE 0
    IN  marker >= 1 /\ marker < Len(rest) /\ rest[marker + 1] = SP

\* line.strip() starts with three backticks
is_code_fence(line) ==
    LET indent == leading(line, {SP})
    IN  Len(line) >= indent + 3 /\ SubSeq(line, indent + 1, indent + 3) = <<BT, BT, BT>>

\* not line.strip()
blank(line) == leading(line, {SP}) = Len(line)

\* render_markdown_line on screen row y of a terminal of LINES rows: what it
\* draws the line as
render_markdown_line(y, line, LINES) ==
    IF y >= LINES - 2 THEN "none"
    ELSE IF header_match(line) THEN "header"
    ELSE IF list_match(line) THEN "list"
    ELSE IF is_code_fence(line) THEN "rule"
    ELSE "inline"

\* Python's s[:n], n of either sign
pyprefix(s, n) ==
    IF n >= 0 THEN SubSeq(s, 1, min(n, Len(s)))
    ELSE SubSeq(s, 1, IF Len(s) + n > 0 THEN Len(s) + n ELSE 0)

\* the characters the renderer draws with, written in ASCII: the double bar
\* of a header, the bullet of a list item, the dash of a rule
BAR == "="
BULLET == "o"
DASH == "-"

\* c * n
RECURSIVE repeat(_, _)
repeat(c, n) == IF n <= 0 THEN <<>> ELSE <<c>> \o repeat(c, n - 1)

\* the header branch: the text it draws
header_text(line, max_width) ==
    LET level == leading(line, {"#"})
        after == suffix(line, level)
        text == suffix(after, leading(after, {SP}))
        display_text == repeat(BAR, 4 - min(level, 3)) \o <<SP>> \o text
    IN  IF Len(display_text) > max_width
        THEN pyprefix(display_text, max_width - 3) \o <<".", ".", ".">>
        ELSE display_text

\* the first index e >= from where delim stands in text, or 0
RECURSIVE find_close(_, _, _)
find_close(text, from, delim) ==
    IF from + Len(delim) - 1 > Len(text) THEN 0
    ELSE IF SubSeq(text, from, from + Len(delim) - 1) = delim THEN from
    ELSE find_close(text, from + 1, delim)

NoMatch == [attr |-> "none", content |-> <<>>, start |-> 0, end |-> 0]

\* one alternative of the inline pattern tried at index p: delim, a shortest
\* non-empty content, delim
delimited(text, p, delim, attr) ==
    LET d == Len(delim)
        e == find_close(text, p + d + 1, delim)
    IN  IF p + d - 1 <= Len(text) /\ SubSeq(text, p, p + d - 1) = delim /\ e # 0
        THEN [attr |-> attr, content |-> SubSeq(text, p + d, e - 1), start |-> p,
              end |-> e + d]
        ELSE NoMatch

\* the inline pattern tried at index p, its alternatives in order: bold,
\* inline code, italic with "*", italic with "_"
match_at(text, p) ==
    LET bold == delimited(text, p, <<"*", "*">>, "bold")
        code == delimited(text, p, <<BT>>, "code")
        star == delimited(text, p, <<"*">>, "dim")
        under == delimited(text, p, <<"_">>, "dim")
    IN  IF bold # NoMatch THEN bold
        ELSE IF code # NoMatch THEN code
        ELSE IF star # NoMatch THEN star
        ELSE under

\* re.finditer(pattern, text) from index p on
RECURSIVE finditer(_, _)
finditer(text, p) ==
    IF p > Len(text) THEN <<>>
    ELSE LET m == match_at(text, p)
         IN  IF m = NoMatch THEN finditer(text, p + 1)
             ELSE <<m>> \o finditer(text, m.end)

\* the mutant writes a run whole
cut_mut(run, budget) == run

\* run[:max(0, budget)]
cut(run, budget) == pyprefix(run, IF budget > 0 THEN budget ELSE 0)

\* the writes of render_inline_markdown: the loop over the matches ms from
\* match i on, then the remaining text
RECURSIVE inline_writes(_, _, _, _, _, _, _)
inline_writes(text, ms, i, pos, current_x, bound, writes) ==
    IF i > Len(ms)
    THEN LET remaining == SubSeq(text, pos, Len(text))
         IN  IF remaining # <<>> /\ current_x < bound
             THEN Append(writes, [x |-> current_x, attr |-> "plain",
                                  text |-> cut(remaining, bound - current_x)])
             ELSE writes
    ELSE LET m == ms[i]
             before_text == SubSeq(text, pos, m.start - 1)
             shown == before_text # <<>> /\ current_x < bound
             before == cut(before_text, bound - current_x)
             x1 == IF shown THEN current_x + Len(before) ELSE current_x
             w1 == IF shown
                   THEN Append(writes, [x |-> current_x, attr |-> "plain", text |-> before])
                   ELSE writes
             styled == cut(m.content, bound - x1)
         IN  IF x1 >= bound THEN w1
             ELSE inline_writes(text, ms, i + 1, m.end, x1 + Len(styled), bound,
                                Append(w1, [x |-> x1, attr |-> m.attr, text |-> styled]))

\* render_inline_markdown on a terminal of COLS columns: the strings it
\* writes, each with its column and attribute
render_inline_markdown(x, text, max_width, COLS) ==
    IF text = <<>> \/ x >= COLS - 1 THEN <<>>
    ELSE inline_writes(text, finditer(text, 1), 1, 1, x, x + max_width, <<>>)

\* the groups of the list pattern: indent, marker and text
list_groups(line) ==
    LET indent == leading(line, {SP})
        rest == suffix(line, indent)
        marker == IF rest[1] \in {"-", "*"} THEN 1 ELSE leading(rest, Digits) + 1
        after == suffix(rest, marker)
    IN  [indent |-> prefix(line, indent), marker |-> prefix(rest, marker),
         text |-> suffix(after, leading(after, {SP}))]

\* render_markdown_line: the strings it writes on row y from column x on
render_line_writes(y, x, line, max_width, LINES, COLS) ==
    LET kind == render_markdown_line(y, line, LINES)
        g == list_groups(line)
    IN  CASE kind = "none" -> <<>>
          [] kind = "header" ->
                << [x |-> x, attr |-> "header", text |-> header_text(line, max_width)] >>
          [] kind = "list" ->
                << [x |-> x, attr |-> "plain", text |-> g.indent],
                   [x |-> x + Len(g.indent), attr |-> "marker",
                    text |-> IF g.marker \in {<<"-">>, <<"*">>} THEN <<BULLET, SP>>
                             ELSE g.marker \o <<SP>>] >>
                \o render_inline_markdown(x + Len(g.indent) + Len(g.marker) + 2, g.text,
                                          max_width - Len(g.indent) - Len(g.marker) - 2,
                                          COLS)
          [] kind = "rule" ->
                << [x |-> x, attr |-> "rule", text |-> repeat(DASH, min(max_width, 40))] >>
          [] kind = "inline" -> render_inline_markdown(x, line, max_width, COLS)

\* ------------------------------------------------------- the entry viewer
\* the display lines one logical line adds
display_line(line, in_code_block, orig_idx, display_width) ==
    IF is_code_fence(line) THEN << <<line, FALSE, TRUE, orig_idx>> >>
    ELSE IF in_code_block THEN << <<line, TRUE, FALSE, orig_idx>> >>
    ELSE IF blank(line) THEN << <<<<>>, FALSE, FALSE, orig_idx>> >>
    ELSE LET wrapped == wrap_text(line, display_width)
         IN  [k \in 1..Len(wrapped) |-> <<wrapped[k], FALSE, FALSE, orig_idx>>]

\* the pre-processing loop over content_lines from the 0-based orig_idx on
RECURSIVE build_display_lines(_, _, _, _)
build_display_lines(ls, orig_idx, in_code_block, display_width) ==
    IF orig_idx >= Len(ls) THEN <<>>
    ELSE LET line == ls[orig_idx + 1]
             inside == IF is_code_fence(line) THEN ~in_code_block ELSE in_code_block
         IN  display_line(line, inside, orig_idx, display_width)
             \o build_display_lines(ls, orig_idx + 1, inside, display_width)

\* the mutant tells code from text by the fences among the rows it draws
draw_row_mut(dls, so, i, h) ==
    LET display_idx == so + i
        t == dls[display_idx + 1]
        fences == {j \in so..(display_idx - 1) : dls[j + 1][3]}
    IN  [y |-> 4 + i, display_idx |-> display_idx,
         style |-> IF t[3] THEN render_markdown_line(4 + i, t[1], h)
                   ELSE IF Cardinality(fences) % 2 = 1 THEN "code"
                   ELSE render_markdown_line(4 + i, t[1], h)]

\* one pass of the render loop body: row i of the content area
draw_row(dls, so, i, h) ==
    LET display_idx == so + i
        t == dls[display_idx + 1]
    IN  [y |-> 4 + i, display_idx |-> display_idx,
         style |-> IF t[3] THEN render_markdown_line(4 + i, t[1], h)
                   ELSE IF t[2] THEN "code"
                   ELSE render_markdown_line(4 + i, t[1], h)]

\* the render loop: the rows drawn with scroll offset so on h terminal rows
draw(dls, so, h) ==
    LET lines_to_display == h - 4 - 2
        rows == min(lines_to_display, Len(dls) - so)
    IN  [k \in 1..rows |-> draw_row(dls, so, k - 1, h)]

\* ------------------------------------------------------------------ state
VARIABLES
    pc,            \* where the screen is: menu, editing, returned, tags, done
    screen,        \* "add" (add_new_entry_screen) or "edit" (edit_entry_screen)
    entry_id,      \* the entry edit_entry_screen was opened on, or the one added
    title,         \* the title handed to get_multiline_input
    edit_w,        \* width of the editor area
    edit_h,        \* height of the editor area
    lines,         \* the logical lines of the buffer
    cursor_line,   \* 0-based index of the cursor's line
    cursor_col,    \* 0-based column of the cursor
    scroll_offset, \* first display row shown
    outcome,       \* Continue, Commit, Cancel or TooSmall
    result,        \* the text get_multiline_input returned
    entries,       \* the entries table: id -> [title, content]
    tags,          \* the tags table: id -> name
    entry_tags,    \* the entry_tags table: pairs <<entry id, tag id>>
    sqlite_sequence, \* the largest id AUTOINCREMENT has given in each table
    foreign_keys,  \* whether the SQLite build enforces foreign keys
    db_call,       \* store specification: the last call and what it returned
    message,       \* the text of the last display_message
    hist,          \* the buffer before an Enter that the last key(s) followed
    store0,        \* the three tables as they were when the screen opened
    wtext,         \* wrapping specification: the text
    wwidth,        \* wrapping specification: the width
    wout,          \* wrapping specification: wrap_text(wtext, wwidth)
    wagain,        \* wrapping specification: the wrap of the joined segments
    wpc,           \* wrapping specification: input, wrapped or rewrapped
    rso,           \* redraw specification: scroll_offset before the redraw
    rrow,          \* redraw specification: the cursor's display row
    rh,            \* redraw specification: edit_h
    rout,          \* redraw specification: what redraw ended with
    rpc,           \* redraw specification: input or redrawn
    vpc,           \* entry viewer: closed, viewing, left (returned None) or quit
    vh,            \* entry viewer: h of getmaxyx
    vw,            \* entry viewer: w of getmaxyx
    content_lines, \* entry viewer: the logical lines of the entry
    display_lines, \* entry viewer: (text, is_code_block, is_code_fence, original index)
    vscroll,       \* entry viewer: its scroll_offset
    drawn,         \* entry viewer: the rows the last pass of the loop drew
    mtext,         \* rendering specification: the text or line
    mx,            \* rendering specification: the start column x
    mwidth,        \* rendering specification: max_width
    mscreen,       \* rendering specification: curses.LINES and curses.COLS
    mwrites,       \* rendering specification: the strings written
    mpc,           \* rendering specification: input, inline or line
    nav_stack,     \* the loops running, the outermost first (main_tui_loop)
    nav_result,    \* what the screen that just returned gave its caller, or "running"
    getch,         \* the key the last step read, "none" if it read none
    confirm_prompt, \* the prompt of the last confirm_action that returned True
    current_main_menu_option, \* main_tui_loop: the option highlighted
    current_page,  \* journal_entries_loop: the page shown, from 0
    items_per_page, \* journal_entries_loop: curses.LINES - 6, at least 1
    selected_idx_on_page, \* journal_entries_loop: the row highlighted, from 0
    total_pages,   \* journal_entries_loop: as computed before the last display
    entries_on_this_page_count, \* journal_entries_loop: rows on the page shown
    paginated_entries, \* what display_entries_list returned: the ids on the page
    entry_id_to_view, \* the entry view_single_entry_screen was opened on
    list_message   \* journal_entries_loop: the text of its last display_message

editor_vars == <<edit_w, edit_h, lines, cursor_line, cursor_col, scroll_offset>>
store_vars == <<entries, tags, entry_tags, sqlite_sequence, foreign_keys>>
wrap_vars == <<wtext, wwidth, wout, wagain, wpc>>
redraw_vars == <<rso, rrow, rh, rout, rpc>>
\* the variables the editor and its screens leave alone
view_vars == <<vpc, vh, vw, content_lines, display_lines, vscroll, drawn>>
md_vars == <<mtext, mx, mwidth, mscreen, mwrites, mpc>>
list_vars == <<current_page, items_per_page, selected_idx_on_page, total_pages,
               entries_on_this_page_count, paginated_entries, list_message>>
nav_vars == <<nav_stack, nav_result, getch, confirm_prompt, current_main_menu_option,
              list_vars, entry_id_to_view>>
aside_vars == <<wrap_vars, redraw_vars, view_vars, md_vars, db_call, nav_vars>>
vars == <<pc, screen, entry_id, title, editor_vars, outcome, result, message, store_vars,
          hist, store0, aside_vars>>

buf == Buffer(lines, cursor_line, cursor_col)

\* number of characters of the document, line breaks included
doc_len == Len(join(NL, lines))

cursor_display_pos == get_cursor_display_pos(lines, cursor_line, cursor_col, edit_w)

\* the contents the stored entry starts with, and the titles typed
InitContents == {<<"a", SP, NL, "a">>}
TitleInputs == {"", "t2"}
TagInputs == {"", "-", "Home"}

\* ------------------------------------------------------------- the store
\* the tables of the database as one value
Db ==
    [entries |-> entries, tags |-> tags, entry_tags |-> entry_tags,
     seq |-> sqlite_sequence, fk |-> foreign_keys]

\* the mutant gives the rowid of a table without AUTOINCREMENT: one more
\* than the largest id stored
add_entry_db_mut(d, t, content) ==
    LET es == d.entries
        id == IF DOMAIN es = {} THEN 1
              ELSE (CHOOSE m \in DOMAIN es : \A k \in DOMAIN es : k <= m) + 1
    IN  [id |-> id,
         db |-> [d EXCEPT !.entries = (id :> [title |-> t, content |-> content]) @@ es,
                          !.seq.entries = id]]

\* add_entry_db: INSERT into a table whose id is AUTOINCREMENT, so the id is
\* one more than the largest id ever given; returns cursor.lastrowid
add_entry_db(d, t, content) ==
    LET id == d.seq.entries + 1
    IN  [id |-> id,
         db |-> [d EXCEPT !.entries = (id :> [title |-> t, content |-> content]) @@ d.entries,
                          !.seq.entries = id]]

\* update_entry_db: the row of the entry with a new title and content
update_entry_db(es, id, t, content) ==
    [es EXCEPT ![id] = [title |-> t, content |-> content]]

\* delete_entry_db: DELETE FROM entries; the rows of entry_tags go with the
\* entry only when the connection enforces foreign keys
delete_entry_db(d, id) ==
    [ok |-> TRUE,
     db |-> [d EXCEPT !.entries = [k \in DOMAIN d.entries \ {id} |-> d.entries[k]],
                      !.entry_tags = IF d.fk THEN {p \in d.entry_tags : p[1] # id}
                                     ELSE d.entry_tags]]

\* str.strip() and str.lower() on the tag names of the model
strip(name) == IF name = "Work " THEN "Work" ELSE IF name = " " THEN "" ELSE name

lower(name) ==
    IF name = "Home" THEN "home" ELSE IF name \in {"Work", "Work "} THEN "work" ELSE name

\* the mutant of get_or_create_tag looks the name up as it was given
normalize_mut(name) == strip(name)

\* tag_name.strip().lower()
normalize(name) == lower(strip(name))

\* the order of ORDER BY t.name on the names the model stores
name_rank ==
    ("" :> 0) @@ ("Home" :> 1) @@ ("Work" :> 2) @@ ("home" :> 3) @@ ("work" :> 4)

\* [t.strip() for t in tags_input.split(',') if t.strip()] on the inputs of
\* the model, none of which holds a comma or a space
tag_list(tags_input) == IF tags_input = "" THEN <<>> ELSE <<tags_input>>

\* get_or_create_tag: the id of the row with the normalized name (fetchone:
\* the first such row), or of a new row
get_or_create_tag(d, tag_name) ==
    LET n == normalize(tag_name)
        found == {id \in DOMAIN d.tags : d.tags[id] = n}
        id == d.seq.tags + 1
    IN  IF found # {}
        THEN [id |-> CHOOSE m \in found : \A k \in found : m <= k, db |-> d]
        ELSE [id |-> id,
              db |-> [d EXCEPT !.tags = (id :> n) @@ d.tags, !.seq.tags = id]]

\* the loop of set_entry_tags over tag_names from index i on
RECURSIVE add_tags(_, _, _, _)
add_tags(d, id, names, i) ==
    IF i > Len(names) THEN d
    ELSE IF normalize(names[i]) = "" THEN add_tags(d, id, names, i + 1)
    ELSE LET g == get_or_create_tag(d, normalize(names[i]))
         IN  add_tags([g.db EXCEPT !.entry_tags = @ \cup {<<id, g.id>>}], id, names, i + 1)

\* the mutant leaves the rows the entry had
set_entry_tags_mut(d, id, names) ==
    [ok |-> TRUE, db |-> add_tags(d, id, names, 1)]

\* set_entry_tags: the rows of the entry deleted, then one row for each
\* non-empty name; called with the id of a stored entry
set_entry_tags(d, id, names) ==
    [ok |-> TRUE,
     db |-> add_tags([d EXCEPT !.entry_tags = {p \in @ : p[1] # id}], id, names, 1)]

\* rows of <<name, tag id, ...>> in the order of ORDER BY t.name, rows of one
\* name in the order of their ids
RECURSIVE by_name(_)
by_name(rows) ==
    IF rows = {} THEN <<>>
    ELSE LET r == CHOOSE a \in rows : \A b \in rows :
                      \/ name_rank[a[1]] < name_rank[b[1]]
                      \/ name_rank[a[1]] = name_rank[b[1]] /\ a[2] <= b[2]
         IN  <<r>> \o by_name(rows \ {r})

\* get_entry_tags: the names of tags JOIN entry_tags for the entry, by name
get_entry_tags(d, id) ==
    LET rows == by_name({<<d.tags[p[2]], p[2]>> :
                            p \in {q \in d.entry_tags : q[1] = id /\ q[2] \in DOMAIN d.tags}})
    IN  [i \in 1..Len(rows) |-> rows[i][1]]

\* get_all_tags: <<name, COUNT(et.entry_id)>> of tags LEFT JOIN entry_tags
\* for each tag, by name
get_all_tags(d) ==
    LET rows == by_name({<<d.tags[t], t>> : t \in DOMAIN d.tags})
    IN  [i \in 1..Len(rows) |->
            <<rows[i][1], Cardinality({p \in d.entry_tags : p[2] = rows[i][2]})>>]

\* get_entries_by_tag: the rows of entries JOIN entry_tags JOIN tags with
\* the name, as pairs <<entry id, tag id>>; len() of the list it returns is
\* the number of these rows
get_entries_by_tag(d, tag_name) ==
    {p \in d.entry_tags :
        p[1] \in DOMAIN d.entries /\ p[2] \in DOMAIN d.tags /\ d.tags[p[2]] = lower(tag_name)}

\* ------------------------------------------------------------- the screens
\* no screen open
ScreensClosed ==
    /\ pc = "menu"
    /\ screen = "none"
    /\ entry_id = 0
    /\ title = ""
    /\ edit_w = 0
    /\ edit_h = 0
    /\ lines = <<>>
    /\ cursor_line = 0
    /\ cursor_col = 0
    /\ scroll_offset = 0
    /\ outcome = "none"
    /\ result = <<>>
    /\ message = ""
    /\ hist = [tag |-> "none", pre |-> NoBuffer]

\* the state before a screen opens, with a stored entry of content c
Start(c) ==
    /\ ScreensClosed
    /\ entries = (1 :> [title |-> "t1", content |-> c])
    /\ tags = (1 :> "work")
    /\ entry_tags = {<<1, 1>>}
    /\ sqlite_sequence = [entries |-> 1, tags |-> 1]
    /\ foreign_keys = FALSE
    /\ store0 = <<entries, tags, entry_tags>>

\* wrap_text and redraw not called on their own
WrapIdle ==
    /\ wtext = <<>>
    /\ wwidth = 0
    /\ wout = <<>>
    /\ wagain = <<>>
    /\ wpc = "idle"

NoRedraw == [scroll_offset |-> 0, adjustments |-> 0]

RedrawIdle ==
    /\ rso = 0
    /\ rrow = 0
    /\ rh = 0
    /\ rout = NoRedraw
    /\ rpc = "idle"

\* the entry viewer not opened
ViewIdle ==
    /\ vpc = "idle"
    /\ vh = 0
    /\ vw = 0
    /\ content_lines = <<>>
    /\ display_lines = <<>>
    /\ vscroll = 0
    /\ drawn = <<>>

\* the renderers not called on their own
\* the database functions not called on their own
DbIdle == db_call = [op |-> "none", e |-> 0, name |-> "", id |-> 0, ok |-> TRUE]

\* main_tui_loop not started
ListIdle ==
    /\ current_page = 0
    /\ items_per_page = 1
    /\ selected_idx_on_page = 0
    /\ total_pages = 1
    /\ entries_on_this_page_count = 0
    /\ paginated_entries = <<>>
    /\ list_message = ""

NavIdle ==
    /\ nav_stack = <<>>
    /\ nav_result = "idle"
    /\ getch = "none"
    /\ confirm_prompt = ""
    /\ current_main_menu_option = 0
    /\ ListIdle
    /\ entry_id_to_view = 0

MdIdle ==
    /\ mtext = <<>>
    /\ mx = 0
    /\ mwidth = 0
    /\ mscreen = [LINES |-> 0, COLS |-> 0]
    /\ mwrites = <<>>
    /\ mpc = "idle"

Init ==
    /\ \E c \in InitContents : Start(c)
    /\ WrapIdle
    /\ RedrawIdle
    /\ ViewIdle
    /\ MdIdle
    /\ DbIdle
    /\ NavIdle

\* the mutant checks the height of the editor area only
get_multiline_input_mut(h, w, t, initial_content) ==
    LET eh == h - 7
        ew == w - 3
        b == initial_buffer(initial_content)
    IN  /\ title' = t
        /\ hist' = hist
        /\ IF eh <= 0
           THEN /\ pc' = "returned"
                /\ outcome' = "TooSmall"
                /\ result' = <<>>
                /\ message' = "Screen too small for text input. Press any key."
                /\ UNCHANGED editor_vars
           ELSE /\ pc' = "editing"
                /\ message' = message
                /\ edit_h' = eh
                /\ edit_w' = ew
                /\ outcome' = "Continue"
                /\ result' = <<>>
                /\ lines' = b.lines
                /\ cursor_line' = b.cursor_line
                /\ cursor_col' = b.cursor_col
                /\ scroll_offset' = 0

\* get_multiline_input up to its first getch, on a terminal of h rows and w
\* columns: the geometry check, the initial buffer and the first redraw
get_multiline_input(h, w, t, initial_content) ==
    LET current_row == IF t # "" THEN 2 ELSE 0
        edit_y == current_row + 2
        eh == h - edit_y - 3
        ew == w - 3
        b == initial_buffer(initial_content)
    IN  /\ title' = t
        /\ hist' = hist
        /\ IF eh <= 0 \/ ew <= 0
           THEN /\ pc' = "returned"
                /\ outcome' = "TooSmall"
                /\ result' = <<>>
                /\ message' = "Screen too small for text input. Press any key."
                /\ UNCHANGED editor_vars
           ELSE /\ pc' = "editing"
                /\ message' = message
                /\ edit_h' = eh
                /\ edit_w' = ew
                /\ outcome' = "Continue"
                /\ result' = <<>>
                /\ lines' = b.lines
                /\ cursor_line' = b.cursor_line
                /\ cursor_col' = b.cursor_col
                /\ scroll_offset' =
                       redraw(0, get_cursor_display_pos(b.lines, b.cursor_line,
                                                        b.cursor_col, ew)[1],
                              eh, 0).scroll_offset

\* the terminal sizes: editor heights 0..MaxEditH and widths 0..MaxEditW
TermHeights == 7..(7 + MaxEditH)
TermWidths == 3..(3 + MaxEditW)

\* add_new_entry_screen up to the editor's first getch
AddNewEntryScreen ==
    /\ pc = "menu"
    /\ \E t \in TitleInputs, h \in TermHeights, w \in TermWidths :
          /\ screen' = "add"
          /\ IF t = ""
             THEN /\ pc' = "done"
                  /\ message' = "Title cannot be empty. Entry not added. Press any key."
                  /\ UNCHANGED <<title, editor_vars, outcome, result, hist>>
             ELSE get_multiline_input(h, w, t, <<>>)
    /\ UNCHANGED <<entry_id, store_vars, aside_vars, store0>>

\* edit_entry_screen on a stored entry, up to the editor's first getch
EditEntryScreen ==
    /\ pc = "menu"
    /\ \E id \in DOMAIN entries, t \in TitleInputs, h \in TermHeights, w \in TermWidths :
          /\ screen' = "edit"
          /\ entry_id' = id
          /\ get_multiline_input(h, w, IF t = "" THEN entries[id].title ELSE t,
                                 entries[id].content)
    /\ UNCHANGED <<store_vars, aside_vars, store0>>

\* ---------------------------------------------------------- the key loop
\* one iteration of the key loop on the buffer b: what the key decides
\* (Continue, Commit or Cancel), the text returned and the buffer it leaves
feed_key(b, key) ==
    LET name == branch(key)
    IN  IF name = "escape"
        THEN [outcome |-> "Commit", text |-> join(NL, b.lines), buffer |-> b]
        ELSE IF name = "ctrl_c"
        THEN [outcome |-> "Cancel", text |-> <<>>, buffer |-> b]
        ELSE [outcome |-> "Continue", text |-> <<>>,
              buffer |-> CASE name = "backspace" -> backspace(b)
                           [] name = "delete" -> delete(b)
                           [] name = "enter" -> enter(b)
                           [] name = "left" -> left(b)
                           [] name = "right" -> right(b)
                           [] name = "up" -> up(b)
                           [] name = "down" -> down(b)
                           [] name = "home" -> home(b)
                           [] name = "end" -> end(b)
                           [] name = "printable" -> printable(b, key)
                           [] name = "tab" -> tab(b)
                           [] OTHER -> b]

NoHist == [tag |-> "none", pre |-> NoBuffer]

\* the rest of an iteration of the key loop: the buffer b the key left and
\* the redraw that follows
Continue(b, h) ==
    /\ lines' = b.lines
    /\ cursor_line' = b.cursor_line
    /\ cursor_col' = b.cursor_col
    /\ scroll_offset' =
           redraw(scroll_offset,
                  get_cursor_display_pos(b.lines, b.cursor_line, b.cursor_col, edit_w)[1],
                  edit_h, 0).scroll_offset
    /\ hist' = h
    /\ UNCHANGED <<pc, screen, entry_id, title, edit_w, edit_h, outcome, result, message,
                   store_vars, aside_vars, store0>>

\* the return of get_multiline_input with an outcome and a text; its local
\* variables (the buffer, the cursor, the scroll offset) end with it
Return(o, text) ==
    /\ pc' = "returned"
    /\ outcome' = o
    /\ result' = text
    /\ hist' = NoHist
    /\ edit_w' = 0
    /\ edit_h' = 0
    /\ lines' = <<>>
    /\ cursor_line' = 0
    /\ cursor_col' = 0
    /\ scroll_offset' = 0
    /\ UNCHANGED <<screen, entry_id, title, message, store_vars, aside_vars, store0>>

\* getch returns key: the iteration of the key loop and the redraw
Feed(key) ==
    \E r \in {feed_key(buf, key)} :
        LET name == branch(key)
        IN  IF r.outcome = "Continue"
            THEN Continue(r.buffer,
                          IF name = "enter" THEN [tag |-> "enter", pre |-> buf]
                          ELSE IF name = "backspace" /\ hist.tag = "enter"
                          THEN [hist EXCEPT !.tag = "enter_backspace"]
                          ELSE NoHist)
            ELSE Return(r.outcome, r.text)

\* the key codes fed for a branch: every printable one, and one of the codes
\* of any other branch (the codes of such a branch all act alike)
fed_keys(name) ==
    IF name = "printable" \/ branch_keys(name) = {} THEN branch_keys(name)
    ELSE {CHOOSE key \in branch_keys(name) : TRUE}

\* fed_keys as a table, one entry for each branch of the key loop
Branches == {"escape", "ctrl_c", "backspace", "delete", "enter", "left", "right", "up",
             "down", "home", "end", "printable", "tab", "ignored"}
FedKeys == [name \in Branches |-> fed_keys(name)]

\* only so many characters are typed: the room the buffer has left
room == MaxChars - doc_len

KeyEscape == pc = "editing" /\ \E key \in FedKeys["escape"] : Feed(key)

KeyCtrlC == pc = "editing" /\ \E key \in FedKeys["ctrl_c"] : Feed(key)

\* getch raising KeyboardInterrupt
KeyboardInterrupt == pc = "editing" /\ Return("Cancel", <<>>)

KeyBackspace == pc = "editing" /\ \E key \in FedKeys["backspace"] : Feed(key)

KeyDelete == pc = "editing" /\ \E key \in FedKeys["delete"] : Feed(key)

KeyEnter == pc = "editing" /\ room >= 1 /\ \E key \in FedKeys["enter"] : Feed(key)

KeyLeft == pc = "editing" /\ \E key \in FedKeys["left"] : Feed(key)

KeyRight == pc = "editing" /\ \E key \in FedKeys["right"] : Feed(key)

KeyUp == pc = "editing" /\ \E key \in FedKeys["up"] : Feed(key)

KeyDown == pc = "editing" /\ \E key \in FedKeys["down"] : Feed(key)

KeyHome == pc = "editing" /\ \E key \in FedKeys["home"] : Feed(key)

KeyEnd == pc = "editing" /\ \E key \in FedKeys["end"] : Feed(key)

KeyPrintable == pc = "editing" /\ room >= 1 /\ \E key \in FedKeys["printable"] : Feed(key)

KeyTab == pc = "editing" /\ room >= Len(spaces) /\ \E key \in FedKeys["tab"] : Feed(key)

KeyIgnored == pc = "editing" /\ \E key \in FedKeys["ignored"] : Feed(key)

\* ------------------------------------------------- after the editor returns
\* the mutant stores whatever the editor returned
truthy_mut(content) == TRUE

\* "if content:" and "if new_content:", the test that the editor returned text
truthy(content) == content # <<>>

\* add_new_entry_screen from the return of the editor to the tags prompt
AddStore ==
    /\ pc = "returned"
    /\ screen = "add"
    /\ IF truthy(result)
       THEN LET a == add_entry_db(Db, title, result)
            IN  /\ entries' = a.db.entries
                /\ sqlite_sequence' = a.db.seq
                /\ entry_id' = a.id
                /\ pc' = "tags"
                /\ message' = message
       ELSE /\ pc' = "done"
            /\ message' = "Entry not added (cancelled or empty content). Press any key."
            /\ UNCHANGED <<entries, sqlite_sequence, entry_id>>
    /\ UNCHANGED <<screen, title, editor_vars, outcome, result, tags, entry_tags,
                   foreign_keys, hist, aside_vars, store0>>

\* edit_entry_screen from the return of the editor to the tags prompt
EditStore ==
    /\ pc = "returned"
    /\ screen = "edit"
    /\ IF truthy(result)
       THEN /\ entries' = update_entry_db(entries, entry_id, title, result)
            /\ pc' = "tags"
            /\ message' = message
       ELSE /\ pc' = "done"
            /\ message' = "Edit cancelled. Press any key."
            /\ UNCHANGED entries
    /\ UNCHANGED <<screen, entry_id, title, editor_vars, outcome, result, tags, entry_tags,
                   sqlite_sequence, foreign_keys, hist, aside_vars, store0>>

\* set_entry_tags(entry_id, tag_list) called by a screen
SetTags(names) ==
    LET r == set_entry_tags(Db, entry_id, names)
    IN  /\ tags' = r.db.tags
        /\ entry_tags' = r.db.entry_tags
        /\ sqlite_sequence' = r.db.seq

\* add_new_entry_screen from the tags prompt to its end
AddTags ==
    /\ pc = "tags"
    /\ screen = "add"
    /\ \E tags_input \in TagInputs :
          IF tags_input # "" THEN SetTags(tag_list(tags_input))
          ELSE UNCHANGED <<tags, entry_tags, sqlite_sequence>>
    /\ pc' = "done"
    /\ message' = "Entry added successfully! Press any key."
    /\ UNCHANGED <<screen, entry_id, title, editor_vars, outcome, result, entries,
                   foreign_keys, hist, aside_vars, store0>>

\* edit_entry_screen from the tags prompt to its end
EditTags ==
    /\ pc = "tags"
    /\ screen = "edit"
    /\ \E tags_input \in TagInputs :
          IF tags_input = "-" THEN SetTags(<<>>)
          ELSE IF tags_input # "" THEN SetTags(tag_list(tags_input))
          ELSE UNCHANGED <<tags, entry_tags, sqlite_sequence>>
    /\ pc' = "done"
    /\ message' = "Entry updated successfully! Press any key."
    /\ UNCHANGED <<screen, entry_id, title, editor_vars, outcome, result, entries,
                   foreign_keys, hist, aside_vars, store0>>

Next ==
    \/ AddNewEntryScreen
    \/ EditEntryScreen
    \/ KeyEscape
    \/ KeyCtrlC
    \/ KeyboardInterrupt
    \/ KeyBackspace
    \/ KeyDelete
    \/ KeyEnter
    \/ KeyLeft
    \/ KeyRight
    \/ KeyUp
    \/ KeyDown
    \/ KeyHome
    \/ KeyEnd
    \/ KeyPrintable
    \/ KeyTab
    \/ KeyIgnored
    \/ AddStore
    \/ EditStore
    \/ AddTags
    \/ EditTags

Spec == Init /\ [][Next]_vars

\* ------------------------------------------- the wrapping specification
\* wrap_text applied to every text of at most MaxLen characters and every
\* width from -1 to MaxWidth, and applied again to its joined segments
WrapTexts == StringsUpTo(Chars, MaxLen)
WrapWidths == -1..MaxWidth

WrapInit ==
    /\ Start(<<>>)
    /\ wtext \in WrapTexts
    /\ wwidth \in WrapWidths
    /\ wout = <<>>
    /\ wagain = <<>>
    /\ wpc = "input"
    /\ RedrawIdle
    /\ ViewIdle
    /\ MdIdle
    /\ DbIdle
    /\ NavIdle

\* wrap_text(wtext, wwidth)
Wrap ==
    /\ wpc = "input"
    /\ wout' = wrap_text(wtext, wwidth)
    /\ wpc' = "wrapped"
    /\ UNCHANGED <<pc, screen, entry_id, title, editor_vars, outcome, result, message,
                   store_vars, hist, store0, wtext, wwidth, wagain, redraw_vars, view_vars,
                   md_vars, db_call, nav_vars>>

\* wrap_text(' '.join(wout), wwidth)
Rewrap ==
    /\ wpc = "wrapped"
    /\ wagain' = wrap_text(join(SP, wout), wwidth)
    /\ wpc' = "rewrapped"
    /\ UNCHANGED <<pc, screen, entry_id, title, editor_vars, outcome, result, message,
                   store_vars, hist, store0, wtext, wwidth, wout, redraw_vars, view_vars,
                   md_vars, db_call, nav_vars>>

WrapNext == Wrap \/ Rewrap

WrapSpec == WrapInit /\ [][WrapNext]_vars

\* --------------------------------------------- the redraw specification
\* redraw called with every scroll offset and cursor display row up to MaxRow
\* and every positive height up to MaxHeight
RedrawInit ==
    /\ Start(<<>>)
    /\ WrapIdle
    /\ rso \in 0..MaxRow
    /\ rrow \in 0..MaxRow
    /\ rh \in 1..MaxHeight
    /\ rout = NoRedraw
    /\ rpc = "input"
    /\ ViewIdle
    /\ MdIdle
    /\ DbIdle
    /\ NavIdle

\* redraw()
Redraw ==
    /\ rpc = "input"
    /\ rout' = redraw(rso, rrow, rh, 0)
    /\ rpc' = "redrawn"
    /\ UNCHANGED <<pc, screen, entry_id, title, editor_vars, outcome, result, message,
                   store_vars, hist, store0, wrap_vars, rso, rrow, rh, view_vars, md_vars,
                   db_call, nav_vars>>

RedrawNext == Redraw

RedrawSpec == RedrawInit /\ [][RedrawNext]_vars

\* ---------------------------------------------- the store specification
\* the database functions called one after another on the database init_db
\* made, on a build of SQLite that enforces foreign keys or on one that
\* does not (no connection sets PRAGMA foreign_keys)
DbNames == {"work", "Work ", "Home"}

RECURSIVE ListsUpTo(_, _)
ListsUpTo(S, n) ==
    IF n = 0 THEN {<<>>}
    ELSE LET shorter == ListsUpTo(S, n - 1)
         IN  shorter \cup {Append(l, x) : l \in shorter, x \in S}

\* the lists given to set_entry_tags may hold a blank name too
TagLists == ListsUpTo(DbNames \cup {" "}, MaxTagList)

db_frame == <<pc, screen, entry_id, title, editor_vars, outcome, result, message, hist,
              store0, wrap_vars, redraw_vars, view_vars, md_vars, nav_vars>>

\* what a call leaves in the tables
Stored(d) ==
    /\ entries' = d.entries
    /\ tags' = d.tags
    /\ entry_tags' = d.entry_tags
    /\ sqlite_sequence' = d.seq
    /\ UNCHANGED <<foreign_keys, db_frame>>

\* init_db on a new file
DbInit ==
    /\ ScreensClosed
    /\ entries = <<>>
    /\ tags = <<>>
    /\ entry_tags = {}
    /\ sqlite_sequence = [entries |-> 0, tags |-> 0]
    /\ foreign_keys \in BOOLEAN
    /\ store0 = <<entries, tags, entry_tags>>
    /\ WrapIdle
    /\ RedrawIdle
    /\ ViewIdle
    /\ MdIdle
    /\ db_call = [op |-> "init_db", e |-> 0, name |-> "", id |-> 0, ok |-> TRUE]
    /\ NavIdle

DbAddEntry ==
    /\ sqlite_sequence.entries < MaxEntryId
    /\ \E a \in {add_entry_db(Db, "t", <<"a">>)} :
           /\ Stored(a.db)
           /\ db_call' = [op |-> "add_entry_db", e |-> 0, name |-> "", id |-> a.id,
                          ok |-> TRUE]

DbDeleteEntry ==
    \E e \in DOMAIN entries :
        \E r \in {delete_entry_db(Db, e)} :
            /\ Stored(r.db)
            /\ db_call' = [op |-> "delete_entry_db", e |-> e, name |-> "", id |-> 0,
                           ok |-> r.ok]

DbSetEntryTags ==
    \E e \in DOMAIN entries, names \in TagLists :
        \E r \in {set_entry_tags(Db, e, names)} :
            /\ Stored(r.db)
            /\ db_call' = [op |-> "set_entry_tags", e |-> e, name |-> "", id |-> 0,
                           ok |-> r.ok]

DbGetOrCreateTag ==
    \E name \in DbNames :
        \E g \in {get_or_create_tag(Db, name)} :
            /\ Stored(g.db)
            /\ db_call' = [op |-> "get_or_create_tag", e |-> 0, name |-> name, id |-> g.id,
                           ok |-> TRUE]

DbNext == DbAddEntry \/ DbDeleteEntry \/ DbSetEntryTags \/ DbGetOrCreateTag

DbSpec == DbInit /\ [][DbNext]_vars

\* ------------------------------------------ the rendering specification
\* render_inline_markdown and render_markdown_line called on row 4 with every
\* text over a letter, "*" and the backtick of at most MaxInlineLen
\* characters, some texts with "_", header lines and list lines, every start
\* column up to MaxX and every max_width from -1 to MaxRenderWidth
InlineTexts ==
    StringsUpTo({"a", "*", BT}, MaxInlineLen)
    \cup {<<"_", "a", "_">>, <<"a", "_", "a", "a", "_">>, <<"_", "*", "a", "*", "_">>}

HeaderLines ==
    {h \o sp \o t : h \in {repeat("#", n) : n \in {1, 2, 3, 7}},
                    sp \in {<<>>, <<SP>>, <<SP, SP>>},
                    t \in StringsUpTo({"a"}, MaxHeaderText)}

ListLines ==
    {<<"-", SP, "a">>, <<SP, "*", SP, "*", "a", "*">>, <<"1", ".", SP, "a", "a">>,
     <<"-", "a">>, <<BT, BT, BT>>}

RenderScreens ==
    {[LINES |-> 24, COLS |-> 80], [LINES |-> 6, COLS |-> 80], [LINES |-> 24, COLS |-> 2]}

RenderInit ==
    /\ Start(<<>>)
    /\ WrapIdle
    /\ RedrawIdle
    /\ ViewIdle
    /\ mtext \in InlineTexts \cup HeaderLines \cup ListLines
    /\ mx \in 0..MaxX
    /\ mwidth \in (-1)..MaxRenderWidth
    /\ mscreen \in RenderScreens
    /\ mwrites = <<>>
    /\ mpc = "input"
    /\ DbIdle
    /\ NavIdle

render_frame == <<pc, screen, entry_id, title, editor_vars, outcome, result, message,
                  store_vars, hist, store0, wrap_vars, redraw_vars, view_vars, db_call,
                  nav_vars>>

\* render_inline_markdown(stdscr, 4, mx, mtext, mwidth)
RenderInline ==
    /\ mpc = "input"
    /\ mwrites' = render_inline_markdown(mx, mtext, mwidth, mscreen.COLS)
    /\ mpc' = "inline"
    /\ UNCHANGED <<render_frame, mtext, mx, mwidth, mscreen>>

\* render_markdown_line(stdscr, 4, mx, mtext, mwidth)
RenderLine ==
    /\ mpc = "input"
    /\ mwrites' = render_line_writes(4, mx, mtext, mwidth, mscreen.LINES, mscreen.COLS)
    /\ mpc' = "line"
    /\ UNCHANGED <<render_frame, mtext, mx, mwidth, mscreen>>

RenderNext == RenderInline \/ RenderLine

RenderSpec == RenderInit /\ [][RenderNext]_vars

\* ----------------------------------------- the entry viewer specification
\* the logical lines documents are made of: a fence, an indented fence, a
\* word, an empty line, a line that ends with three backticks, a header, a
\* list item and a line with "# a" after a word
ViewLines ==
    {<<BT, BT, BT>>, <<SP, BT, BT, BT>>, <<"a">>, <<>>, <<"a", SP, BT, BT, BT>>,
     <<"#", SP, "a">>, <<"-", SP, "a">>, <<"a", "a", SP, "#", SP, "a">>}

\* all sequences over S of length at most n
RECURSIVE DocsUpTo(_, _)
DocsUpTo(S, n) ==
    IF n = 0 THEN {<<>>}
    ELSE LET shorter == DocsUpTo(S, n - 1)
         IN  shorter \cup {Append(d, l) : d \in {e \in shorter : Len(e) = n - 1}, l \in S}

ViewContents == {join(NL, doc) : doc \in DocsUpTo(ViewLines, MaxDocLines)}

\* the contents an edit started from the viewer may store
EditedContents == {<<BT, BT, BT, NL, "a", NL, "a">>, <<"a">>}

ViewHeights == 7..(6 + MaxViewRows)
ViewWidths == {4, 7}

ViewInit ==
    /\ \E c \in ViewContents : Start(c)
    /\ WrapIdle
    /\ RedrawIdle
    /\ vpc = "closed"
    /\ vh = 0
    /\ vw = 0
    /\ content_lines = <<>>
    /\ display_lines = <<>>
    /\ vscroll = 0
    /\ drawn = <<>>
    /\ MdIdle
    /\ DbIdle
    /\ NavIdle

\* the part of the state the viewer never touches
view_frame == <<pc, screen, title, editor_vars, outcome, result, hist, store0, wrap_vars,
                redraw_vars, md_vars, db_call, nav_vars>>

\* view_single_entry_screen(stdscr, id) up to its first getch
ViewOpen ==
    /\ vpc = "closed"
    /\ \E id \in {1, 2}, h \in ViewHeights, w \in ViewWidths :
          /\ entry_id' = id
          /\ IF id \notin DOMAIN entries
             THEN /\ vpc' = "left"
                  /\ message' = "Error: Entry not found. Press any key to return."
                  /\ UNCHANGED <<vh, vw, content_lines, display_lines, vscroll, drawn>>
             ELSE LET ls == splitlines(entries[id].content)
                      dls == build_display_lines(ls, 0, FALSE, w - 1)
                  IN  /\ vpc' = "viewing"
                      /\ vh' = h
                      /\ vw' = w
                      /\ content_lines' = ls
                      /\ display_lines' = dls
                      /\ vscroll' = 0
                      /\ drawn' = draw(dls, 0, h)
                      /\ message' = message
    /\ UNCHANGED <<view_frame, store_vars>>

\* KEY_UP
ViewUp ==
    /\ vpc = "viewing"
    /\ vscroll' = IF vscroll > 0 THEN vscroll - 1 ELSE vscroll
    /\ drawn' = draw(display_lines, vscroll', vh)
    /\ UNCHANGED <<view_frame, store_vars, entry_id, message, vpc, vh, vw, content_lines,
                   display_lines>>

\* KEY_DOWN
ViewDown ==
    /\ vpc = "viewing"
    /\ vscroll' = IF vscroll + (vh - 4 - 2) < Len(display_lines) THEN vscroll + 1
                  ELSE vscroll
    /\ drawn' = draw(display_lines, vscroll', vh)
    /\ UNCHANGED <<view_frame, store_vars, entry_id, message, vpc, vh, vw, content_lines,
                   display_lines>>

\* 'b' or 'B'
ViewBack ==
    /\ vpc = "viewing"
    /\ vpc' = "left"
    /\ UNCHANGED <<view_frame, store_vars, entry_id, message, vh, vw, content_lines,
                   display_lines, vscroll, drawn>>

\* 'q' or 'Q' and the answer to confirm_action
ViewQuit ==
    /\ vpc = "viewing"
    /\ \E confirmed \in BOOLEAN : vpc' = IF confirmed THEN "quit" ELSE "viewing"
    /\ UNCHANGED <<view_frame, store_vars, entry_id, message, vh, vw, content_lines,
                   display_lines, vscroll, drawn>>

\* 'e' or 'E': edit_entry_screen returns False, or True after storing a content
ViewEdit ==
    /\ vpc = "viewing"
    /\ \/ /\ message' = "Edit cancelled. Press any key."
          /\ UNCHANGED <<entries, content_lines, display_lines, vscroll, drawn>>
       \/ \E c \in EditedContents :
             LET ls == splitlines(c)
                 dls == build_display_lines(ls, 0, FALSE, vw - 1)
             IN  /\ entries' = update_entry_db(entries, entry_id, entries[entry_id].title, c)
                 /\ message' = "Entry updated successfully! Press any key."
                 /\ content_lines' = ls
                 /\ display_lines' = dls
                 /\ vscroll' = 0
                 /\ drawn' = draw(dls, 0, vh)
    /\ UNCHANGED <<view_frame, tags, entry_tags, sqlite_sequence, foreign_keys, entry_id,
                   vpc, vh, vw>>

\* any other key
ViewOther ==
    /\ vpc = "viewing"
    /\ UNCHANGED vars

ViewNext ==
    \/ ViewOpen
    \/ ViewUp
    \/ ViewDown
    \/ ViewBack
    \/ ViewQuit
    \/ ViewEdit
    \/ ViewOther

ViewSpec == ViewInit /\ [][ViewNext]_vars

\* ===================================================================
\* The claims
\* ===================================================================

\* C1. Cursor invariant: while a session is open (after it opened, with or
\* without initial content, and after every key) the buffer has at least one
\* line, 0 <= cursor_line < len(lines) and 0 <= cursor_col <= len(lines[cursor_line]).
CursorInvariant ==
    pc = "editing" =>
        /\ Len(lines) >= 1
        /\ 0 <= cursor_line /\ cursor_line < Len(lines)
        /\ 0 <= cursor_col /\ cursor_col <= Len(lines[cursor_line + 1])

\* a session whose cursor sits at the end of a line longer than the line
\* above it: the column was or will be clamped by Up
CursorInvariantWitness ==
    /\ pc = "editing"
    /\ Len(lines) = 2
    /\ cursor_line = 0
    /\ cursor_col = Len(lines[1])
    /\ Len(lines[1]) < Len(lines[2])
    /\ Len(lines[1]) > 0

\* C2. Scroll invariant: after every completed redraw of a session the
\* cursor's display row r satisfies scroll_offset <= r < scroll_offset + edit_h,
\* and scroll_offset >= 0.
ScrollInvariant ==
    pc = "editing" =>
        LET r == cursor_display_pos[1]
        IN  /\ edit_h > 0
            /\ scroll_offset >= 0
            /\ scroll_offset <= r
            /\ r < scroll_offset + edit_h

\* a redraw that scrolled down: the cursor is on the last row of a window
\* that no longer starts at the top
ScrollInvariantWitness ==
    /\ pc = "editing"
    /\ scroll_offset > 0
    /\ edit_h = 2
    /\ cursor_display_pos[1] = scroll_offset + edit_h - 1

\* the valid cursors of the buffer
ValidCursors ==
    {c \in (0..(Len(lines) - 1)) \X (0..MaxChars) : c[2] <= Len(lines[c[1] + 1])}

\* C3. Cursor round trip: get_cursor_display_pos sends distinct valid cursors
\* of a document to distinct (row, col) positions, so that a to_logical with
\* to_logical(to_display(cursor)) == cursor exists.
CursorRoundTrip ==
    pc = "editing" =>
        \A c \in ValidCursors :
            get_cursor_display_pos(lines, c[1], c[2], edit_w) = cursor_display_pos
                => c = <<cursor_line, cursor_col>>

\* the segments of the cursor's line, and the count chars_so_far that
\* get_cursor_display_pos has consumed before segment i (0-based)
CursorSegments == wrap_text(lines[cursor_line + 1], edit_w)

RECURSIVE ConsumedBefore(_, _)
ConsumedBefore(wrapped, i) ==
    IF i = 0 THEN 0 ELSE ConsumedBefore(wrapped, i - 1) + Len(wrapped[i]) + 1

\* the display row of the first segment of the cursor's line
CursorBaseRow == rows_before(lines, cursor_line, edit_w)

\* C4 as stated. Segment-boundary rule: a column equal to the consumed count
\* at the end of a segment that is not the last of its line maps to
\* (row of the next segment, 0).
SegmentBoundaryNext ==
    (pc = "editing" /\ lines[cursor_line + 1] # <<>>) =>
        \A i \in 0..(Len(CursorSegments) - 2) :
            cursor_col = ConsumedBefore(CursorSegments, i) + Len(CursorSegments[i + 1])
                => cursor_display_pos = <<CursorBaseRow + i + 1, 0>>

\* C4 as amended. A column equal to the consumed count at the end of the text
\* of a segment, last or not, maps to (row of that segment, len(segment));
\* the column one further, past the space the join replaced, maps to
\* (row of the next segment, 0).
SegmentBoundaryStays ==
    (pc = "editing" /\ lines[cursor_line + 1] # <<>>) =>
        LET wrapped == CursorSegments
            pos == cursor_display_pos
            row == CursorBaseRow
        IN  \A i \in 0..(Len(wrapped) - 1) :
                LET text_end == ConsumedBefore(wrapped, i) + Len(wrapped[i + 1])
                IN  /\ cursor_col = text_end => pos = <<row + i, Len(wrapped[i + 1])>>
                    /\ (cursor_col = text_end + 1 /\ i + 1 < Len(wrapped))
                           => pos = <<row + i + 1, 0>>

\* the cursor at the end of the text of a first segment that another follows
SegmentBoundaryWitness ==
    /\ pc = "editing"
    /\ lines[cursor_line + 1] # <<>>
    /\ Len(CursorSegments) >= 2
    /\ cursor_col = Len(CursorSegments[1])
    /\ cursor_display_pos = <<CursorBaseRow, Len(CursorSegments[1])>>

\* C5. Width bound: for every line and width > 0 every segment of
\* wrap_text(line, width) has length <= width.
WidthBound ==
    (wpc # "input" /\ wwidth > 0) =>
        \A i \in 1..Len(wout) : Len(wout[i]) <= wwidth

\* a line with a leading space, a repeated space and a word longer than the
\* width, wrapped
WidthBoundWitness ==
    /\ wpc = "wrapped"
    /\ wwidth = 2
    /\ wtext = <<SP, "a", SP, SP, "b">>
    /\ wout = << <<"a", SP>>, <<"b">> >>

\* C6. Wrap idempotence: for w > 0, wrap_text(' '.join(wrap_text(line, w)), w)
\* == wrap_text(line, w).
WrapIdempotent ==
    (wpc = "rewrapped" /\ wwidth > 0) => wagain = wout

\* a hard-split word after a short one, wrapped and wrapped again
WrapIdempotentWitness ==
    /\ wpc = "rewrapped"
    /\ wwidth = 2
    /\ wtext = <<"a", SP, "b", "b", "b">>
    /\ wout = << <<"a">>, <<"b", "b">>, <<"b">> >>
    /\ wagain = wout

\* C7. Segment count: wrap_text returns the empty sequence for width <= 0, at
\* least one segment for width > 0, and [''] for the empty line.
SegmentCount ==
    wpc # "input" =>
        /\ wwidth <= 0 => wout = <<>>
        /\ wwidth > 0 => Len(wout) >= 1
        /\ (wwidth > 0 /\ wtext = <<>>) => wout = << <<>> >>

\* a line made only of spaces wraps into the single empty segment
SegmentCountWitness ==
    /\ wpc = "wrapped"
    /\ wwidth > 0
    /\ wtext = <<SP, SP>>
    /\ wout = << <<>> >>

\* C8. Enter/Backspace inverse: Enter and then immediately Backspace yield
\* exactly the lines and the cursor before the Enter.
EnterBackspaceInverse ==
    hist.tag = "enter_backspace" => buf = hist.pre

\* ['aa'], (0,2) -> ['aa', ''], (1,0) -> ['aa'], (0,2)
EnterBackspaceWitness ==
    /\ hist.tag = "enter_backspace"
    /\ lines = << <<"a", "a">> >>
    /\ cursor_line = 0
    /\ cursor_col = 2

\* what each key code decides in an editor state
TerminalKeys ==
    pc = "editing" =>
        \A key \in Keys :
            LET r == feed_key(buf, key)
            IN  /\ key = 27 => (r.outcome = "Commit" /\ r.text = join(NL, lines))
                /\ key = 3 => (r.outcome = "Cancel" /\ r.text = <<>>)
                /\ key \notin {27, 3} => r.outcome = "Continue"

\* what a step of the session and a step after it may do
TerminalSteps ==
    /\ (pc = "editing" /\ pc' # "editing") =>
           /\ pc' = "returned"
           /\ \/ outcome' = "Commit" /\ result' = join(NL, lines)
              \/ outcome' = "Cancel" /\ result' = <<>>
    /\ (pc = "editing" /\ pc' = "editing") => outcome' = "Continue"
    /\ pc \in {"returned", "tags", "done"} =>
           /\ pc' # "editing"
           /\ UNCHANGED <<editor_vars, outcome, result>>

\* C9. Terminal transitions: in every editor state Escape commits the lines
\* joined by a line break and Ctrl+C (key 3 or KeyboardInterrupt) cancels
\* with no text, each in one step; no other key ends the session; no key is
\* processed after the session ended.
TerminalTransitions == [](TerminalKeys) /\ [][TerminalSteps]_vars

\* a session of two lines ended by Escape
TerminalTransitionsWitness ==
    /\ pc = "returned"
    /\ outcome = "Commit"
    /\ result = <<"a", NL, "a">>

\* C10. Cancel discards edits: when a session of edit_entry_screen or
\* add_new_entry_screen ended with Cancel, the store is as it was when the
\* screen opened: no entry added, title, content and tags of the edited
\* entry kept, a newly typed title discarded.
CancelDiscards ==
    (outcome = "Cancel" /\ pc \in {"returned", "done"}) =>
        <<entries, tags, entry_tags>> = store0

\* edit_entry_screen ended after a cancelled session for which a new title
\* had been typed
CancelDiscardsWitness ==
    /\ pc = "done"
    /\ outcome = "Cancel"
    /\ screen = "edit"
    /\ title = "t2"
    /\ entries[entry_id].title = "t1"

\* the key codes the key loop names
NamedKeys ==
    {27, 3, KEY_BACKSPACE, 127, 8, KEY_DC, KEY_ENTER, 10, 13, KEY_LEFT, KEY_RIGHT,
     KEY_UP, KEY_DOWN, KEY_HOME, KEY_END, 9} \cup 32..126

\* key codes it does not name: the control codes, codes past the printable
\* range, other function keys, getch's -1
OtherKeys == ((-1..31) \cup {128, 255, 257, 264, 338, 339, 410}) \ NamedKeys

\* C11. Ignored keys: a key code that is none of Escape, Ctrl+C, Backspace,
\* Delete, Enter, the arrows, Home, End, Tab or printable ASCII 32..126 leaves
\* lines, cursor and scroll_offset unchanged and does not end the session.
IgnoredKeys ==
    pc = "editing" =>
        LET so == redraw(scroll_offset, cursor_display_pos[1], edit_h, 0).scroll_offset
        IN  /\ so = scroll_offset
            /\ \A key \in OtherKeys :
                   \A r \in {feed_key(buf, key)} : r.outcome = "Continue" /\ r.buffer = buf

\* a session with a scrolled window whose cursor is neither at the start of
\* its line nor on the window's last row: any other branch would show
IgnoredKeysWitness ==
    /\ pc = "editing"
    /\ scroll_offset > 0
    /\ cursor_col > 0
    /\ cursor_display_pos[1] < scroll_offset + edit_h - 1

\* the string s without its character at the 1-based position i
Without(s, i) == [j \in 1..(Len(s) - 1) |-> IF j < i THEN s[j] ELSE s[j + 1]]

\* the lines ls with the 1-based lines i and i + 1 made one
Merged(ls, i) ==
    [j \in 1..(Len(ls) - 1) |->
        IF j < i THEN ls[j] ELSE IF j = i THEN ls[i] \o ls[i + 1] ELSE ls[j + 1]]

\* C13. Backspace: with cursor_col > 0 it removes exactly the character
\* before the cursor and decrements cursor_col; else with cursor_line > 0 it
\* appends the current line to the previous one, removes the current line and
\* puts the cursor on the previous line at that line's former length; at
\* (0,0) it changes nothing. All other lines are unchanged.
BackspaceEffect ==
    pc = "editing" =>
        \A key \in {KEY_BACKSPACE, 127, 8} :
            \A r \in {feed_key(buf, key)} :
            LET b == r.buffer
            IN  /\ r.outcome = "Continue"
                /\ cursor_col > 0 =>
                       /\ b.lines = [lines EXCEPT ![cursor_line + 1] = Without(@, cursor_col)]
                       /\ b.cursor_line = cursor_line
                       /\ b.cursor_col = cursor_col - 1
                /\ (cursor_col = 0 /\ cursor_line > 0) =>
                       /\ b.lines = Merged(lines, cursor_line)
                       /\ b.cursor_line = cursor_line - 1
                       /\ b.cursor_col = Len(lines[cursor_line])
                /\ (cursor_col = 0 /\ cursor_line = 0) => b = buf

\* the cursor at the start of the middle line of three, after a line that is
\* not empty: Backspace merges the two and keeps the third
BackspaceEffectWitness ==
    /\ pc = "editing"
    /\ Len(lines) = 3
    /\ cursor_line = 1
    /\ cursor_col = 0
    /\ lines[1] # <<>>
    /\ lines[2] # <<>>
    /\ backspace(buf).lines = <<lines[1] \o lines[2], lines[3]>>

\* C14. Delete-forward never moves the cursor: it removes the character at
\* the cursor when cursor_col < len(line), otherwise merges the next line into
\* the current one when there is one, otherwise does nothing; in all three
\* cases (cursor_line, cursor_col) is unchanged and every line before the
\* cursor line is unchanged.
DeleteEffect ==
    pc = "editing" =>
        LET r == feed_key(buf, KEY_DC)
            b == r.buffer
            at_end == cursor_col >= Len(lines[cursor_line + 1])
            last == cursor_line >= Len(lines) - 1
        IN  /\ r.outcome = "Continue"
            /\ b.cursor_line = cursor_line
            /\ b.cursor_col = cursor_col
            /\ \A i \in 1..cursor_line : b.lines[i] = lines[i]
            /\ ~at_end =>
                   b.lines = [lines EXCEPT ![cursor_line + 1] = Without(@, cursor_col + 1)]
            /\ (at_end /\ ~last) => b.lines = Merged(lines, cursor_line + 1)
            /\ (at_end /\ last) => b.lines = lines

\* the cursor at the end of the middle line of three, none of them empty:
\* Delete merges the third into it
DeleteEffectWitness ==
    /\ pc = "editing"
    /\ Len(lines) = 3
    /\ cursor_line = 1
    /\ cursor_col = Len(lines[2])
    /\ cursor_col > 0
    /\ lines[3] # <<>>
    /\ delete(buf) = Buffer(<<lines[1], lines[2] \o lines[3]>>, 1, cursor_col)

\* C15. Arrow movement: Left/Right move the cursor by one column and at a
\* line boundary wrap to the end of the previous line / the start of the next
\* line (Left at (0,0) and Right at the end of the last line are no-ops);
\* Up/Down move to the adjacent line with column min(column,
\* len(target_line)) (Up on the first line and Down on the last are no-ops).
ArrowMovement ==
    pc = "editing" =>
        LET l == feed_key(buf, KEY_LEFT)
            r == feed_key(buf, KEY_RIGHT)
            u == feed_key(buf, KEY_UP)
            d == feed_key(buf, KEY_DOWN)
            len == Len(lines[cursor_line + 1])
            last == Len(lines) - 1
            clamp(n) == IF cursor_col <= n THEN cursor_col ELSE n
        IN  /\ \A k \in {l, r, u, d} : k.outcome = "Continue" /\ k.buffer.lines = lines
            /\ l.buffer =
                   IF cursor_col > 0 THEN Buffer(lines, cursor_line, cursor_col - 1)
                   ELSE IF cursor_line > 0
                   THEN Buffer(lines, cursor_line - 1, Len(lines[cursor_line]))
                   ELSE buf
            /\ r.buffer =
                   IF cursor_col < len THEN Buffer(lines, cursor_line, cursor_col + 1)
                   ELSE IF cursor_line < last THEN Buffer(lines, cursor_line + 1, 0)
                   ELSE buf
            /\ u.buffer =
                   IF cursor_line > 0
                   THEN Buffer(lines, cursor_line - 1, clamp(Len(lines[cursor_line])))
                   ELSE buf
            /\ d.buffer =
                   IF cursor_line < last
                   THEN Buffer(lines, cursor_line + 1, clamp(Len(lines[cursor_line + 2])))
                   ELSE buf

\* the cursor at the start of the second of two lines, under a longer line:
\* Left wraps to the end of the line above, Right moves one column
ArrowMovementWitness ==
    /\ pc = "editing"
    /\ Len(lines) = 2
    /\ cursor_line = 1
    /\ cursor_col = 0
    /\ Len(lines[1]) = 2
    /\ Len(lines[2]) = 1
    /\ left(buf) = Buffer(lines, 0, 2)
    /\ right(buf) = Buffer(lines, 1, 1)

\* C16. Scroll adjustment function: a redraw with cursor display row r and
\* height h sets scroll_offset to r when r < scroll_offset, to r - h + 1 when
\* r >= scroll_offset + h, and leaves it unchanged otherwise (h = 3, r = 9,
\* scroll_offset <= 6 gives 7).
ScrollAdjustment ==
    rpc = "redrawn" =>
        /\ rout.scroll_offset =
               IF rrow < rso THEN rrow
               ELSE IF rrow >= rso + rh THEN rrow - rh + 1
               ELSE rso
        /\ (rh = 3 /\ rrow = 9 /\ rso <= 6) => rout.scroll_offset = 7

\* the example: h = 3, r = 9 and scroll_offset = 6 give 7
ScrollAdjustmentWitness ==
    /\ rpc = "redrawn"
    /\ rh = 3
    /\ rrow = 9
    /\ rso = 6
    /\ rout.scroll_offset = 7

\* C17. Redraw ends with at most one adjustment: for edit_h > 0 every
\* top-level call of redraw (the first redraw of a long pre-populated document
\* included) takes at most one of the two scroll-adjustment branches and the
\* redraw it triggers takes none, so the recursion depth is at most 1.
RedrawOnce ==
    rpc = "redrawn" =>
        /\ rout.adjustments <= 1
        /\ redraw(rout.scroll_offset, rrow, rh, 0).adjustments = 0

\* the first redraw of a document whose cursor is on display row 9, in a
\* window of one row: one adjustment from scroll_offset 0 to 9
RedrawOnceWitness ==
    /\ rpc = "redrawn"
    /\ rh = 1
    /\ rso = 0
    /\ rrow = 9
    /\ rout = [scroll_offset |-> 9, adjustments |-> 1]

\* C18. Degenerate geometry: when the computed editor width or height is <= 0
\* get_multiline_input lays nothing out, processes no editing key, shows the
\* fallback message and returns without text; the stored entry being edited
\* is left unchanged.
DegenerateGeometry ==
    /\ pc = "editing" => (edit_h > 0 /\ edit_w > 0)
    /\ outcome = "TooSmall" =>
           /\ pc \in {"returned", "done"}
           /\ result = <<>>
           /\ editor_vars = <<0, 0, <<>>, 0, 0, 0>>
           /\ <<entries, tags, entry_tags>> = store0
           /\ pc = "returned" => message = "Screen too small for text input. Press any key."

\* edit_entry_screen ended on a terminal too small, after a new title had
\* been typed: the entry keeps its title
DegenerateGeometryWitness ==
    /\ pc = "done"
    /\ outcome = "TooSmall"
    /\ screen = "edit"
    /\ title = "t2"
    /\ entries[entry_id] = [title |-> "t1", content |-> <<"a", SP, NL, "a">>]
    /\ message = "Edit cancelled. Press any key."

\* the words of the text of the wrapping specification, and the state of
\* wrap_text's loop (segments emitted, pending segment) before its word i
Words == split(wtext, SP)
BeforeWord(i) == wrap_words(SubSeq(Words, 1, i - 1), 1, <<>>, <<>>, wwidth)

\* the number of chunks of width characters cut off a word
FullChunks(word) == IF Len(word) > wwidth THEN (Len(word) - 1) \div wwidth ELSE 0

\* the indices in the output of the segments that begin with a chunk of a
\* hard-split word: the chunks cut off word i, and its remainder
ChunkSegments ==
    UNION {LET h == hard_split(Words[i], wwidth, BeforeWord(i).out, BeforeWord(i).current_line)
           IN  IF FullChunks(Words[i]) = 0 THEN {}
               ELSE (Len(h.out) - FullChunks(Words[i]) + 1)..(Len(h.out) + 1)
           : i \in 1..Len(Words)}

\* C19. Greedy wrapping with exact-fit tie-break: a word is appended to a
\* non-empty current segment exactly when len(current) + 1 + len(word) <= width
\* (equality included); hence for two consecutive output segments s, t where t
\* does not begin with a chunk of a hard-split word,
\* len(s) + 1 + len(first word of t) > width.
GreedyFit ==
    (wpc # "input" /\ wwidth > 0) =>
        /\ \A i \in 1..Len(Words) :
               LET b == BeforeWord(i)
                   word == Words[i]
                   a == wrap_word(b.out, b.current_line, word, wwidth)
               IN  (b.current_line # <<>> /\ Len(word) <= wwidth) =>
                       IF Len(b.current_line) + 1 + Len(word) <= wwidth
                       THEN a = [out |-> b.out,
                                 current_line |-> b.current_line \o <<SP>> \o word]
                       ELSE a = [out |-> Append(b.out, b.current_line),
                                 current_line |-> word]
        /\ LET chunks == ChunkSegments
           IN  \A i \in 1..(Len(wout) - 1) :
                   (i + 1) \notin chunks =>
                       Len(wout[i]) + 1 + Len(split(wout[i + 1], SP)[1]) > wwidth

\* "a b ab" at width 3: "b" joins "a" because 1 + 1 + 1 = 3, "ab" does not
\* join "a b" because 3 + 1 + 2 > 3
GreedyFitWitness ==
    /\ wpc = "wrapped"
    /\ wwidth = 3
    /\ wtext = <<"a", SP, "b", SP, "a", "b">>
    /\ wout = << <<"a", SP, "b">>, <<"a", "b">> >>
    /\ ChunkSegments = {}

\* the concatenation of the segments
RECURSIVE Concat(_)
Concat(segments) == IF segments = <<>> THEN <<>> ELSE segments[1] \o Concat(Tail(segments))

\* C20. Hard split of long words: a line that is a single word of length
\* n >= 1 with no spaces wraps, for width > 0, into exactly ceil(n / width)
\* segments whose concatenation is the word, every segment but the last of
\* length exactly width; a pending non-empty segment is emitted before the
\* first chunk.
HardSplit ==
    (wpc # "input" /\ wwidth > 0) =>
        /\ (wtext # <<>> /\ \A j \in 1..Len(wtext) : wtext[j] # SP) =>
               /\ Len(wout) = (Len(wtext) + wwidth - 1) \div wwidth
               /\ Concat(wout) = wtext
               /\ \A i \in 1..(Len(wout) - 1) : Len(wout[i]) = wwidth
        /\ \A i \in 1..Len(Words) :
               LET b == BeforeWord(i)
                   a == wrap_word(b.out, b.current_line, Words[i], wwidth)
                   n == Len(b.out)
               IN  (b.current_line # <<>> /\ Len(Words[i]) > wwidth) =>
                       /\ Len(a.out) = n + 1 + FullChunks(Words[i])
                       /\ SubSeq(a.out, 1, n) = b.out
                       /\ a.out[n + 1] = b.current_line
                       /\ a.out[n + 2] = SubSeq(Words[i], 1, wwidth)

\* a word of five characters at width 2: three segments, the last of length 1
HardSplitWitness ==
    /\ wpc = "wrapped"
    /\ wwidth = 2
    /\ wtext = <<"a", "b", "a", "b", "a">>
    /\ wout = << <<"a", "b">>, <<"a", "b">>, <<"a">> >>

\* the trimmed text of a line starts with three backticks
FenceMarker(line) ==
    \E k \in 0..Len(line) :
        /\ \A j \in 1..k : line[j] = SP
        /\ Len(line) >= k + 3
        /\ \A j \in (k + 1)..(k + 3) : line[j] = BT

\* the fence-marker lines with a logical index smaller than n (0-based)
FencesBefore(n) == {j \in 0..(n - 1) : FenceMarker(content_lines[j + 1])}

\* C12. Fence parity under scrolling: in the entry viewer, for every document
\* and every scroll_offset reachable by UP/DOWN keys, a displayed non-fence
\* line is drawn as code-block content if and only if the number of
\* fence-marker lines with a logical index strictly smaller than its own is
\* odd, whichever rows are visible.
FenceParity ==
    vpc = "viewing" =>
        \A k \in 1..Len(drawn) :
            LET orig_idx == display_lines[drawn[k].display_idx + 1][4]
            IN  ~FenceMarker(content_lines[orig_idx + 1]) =>
                    (drawn[k].style = "code" <=> Cardinality(FencesBefore(orig_idx)) % 2 = 1)

\* the viewer scrolled past an opening fence: the only row shown is a line of
\* the code block, and no fence is visible
FenceParityWitness ==
    /\ vpc = "viewing"
    /\ vh = 7
    /\ vscroll = 1
    /\ content_lines = << <<BT, BT, BT>>, <<"-", SP, "a">>, <<"a">> >>
    /\ Len(drawn) = 1
    /\ drawn[1].display_idx = 1
    /\ drawn[1].style = "code"

\* C21. Text that fits does not wrap: for every text with len(text) <= width,
\* wrap_text(text, width) is the single-segment list [text]. Stated here for
\* width > 0 only, where wrap_text returns segments at all.
TextThatFits ==
    (wpc # "input" /\ wwidth > 0 /\ Len(wtext) <= wwidth) => wout = <<wtext>>

\* C22. Tab inserts exactly four spaces at the cursor and advances cursor_col
\* by 4: from every state, feeding Tab yields the same (lines, cursor) as
\* feeding the space key (32) four times.
TabIsFourSpaces ==
    pc = "editing" =>
        LET s1 == feed_key(buf, 32).buffer
            s2 == feed_key(s1, 32).buffer
            s3 == feed_key(s2, 32).buffer
            s4 == feed_key(s3, 32).buffer
            t == feed_key(buf, TAB)
        IN  /\ t.outcome = "Continue"
            /\ t.buffer = s4
            /\ t.buffer.cursor_col = cursor_col + 4
            /\ Len(t.buffer.lines[cursor_line + 1]) = Len(lines[cursor_line + 1]) + 4

\* a new entry's empty buffer after Tab: one line of four spaces, the cursor
\* behind them
TabIsFourSpacesWitness ==
    /\ pc = "editing"
    /\ screen = "add"
    /\ lines = << <<SP, SP, SP, SP>> >>
    /\ cursor_line = 0
    /\ cursor_col = 4

\* the writes of the inline renderer with a budget nothing exceeds
InlineUncut == render_inline_markdown(mx, mtext, Len(mtext) + 1, mscreen.COLS)

\* C23. Inline horizontal budget: for every text, start column x and
\* max_width, render_inline_markdown never writes a character at a column
\* >= x + max_width; each literal or styled run is cut to the remaining
\* budget, and once the budget is used up no later span is emitted.
InlineBudget ==
    mpc = "inline" =>
        LET full == InlineUncut
            bound == mx + mwidth
        IN  /\ Len(mwrites) <= Len(full)
            /\ \A i \in 1..Len(mwrites) :
                   /\ mwrites[i].x + Len(mwrites[i].text) <= bound
                   /\ mwrites[i].text # <<>>
                   /\ mwrites[i].x = full[i].x
                   /\ mwrites[i].attr = full[i].attr
                   /\ mwrites[i].text =
                          SubSeq(full[i].text, 1, min(Len(full[i].text), bound - full[i].x))
            /\ \A i \in (Len(mwrites) + 1)..Len(full) : full[i].x >= bound

\* "a*a*a" from column 1 with max_width 2: the literal and the italic run
\* are written, the last literal is not
InlineBudgetWitness ==
    /\ mpc = "inline"
    /\ mtext = <<"a", "*", "a", "*", "a">>
    /\ mx = 1
    /\ mwidth = 2
    /\ mwrites = << [x |-> 1, attr |-> "plain", text |-> <<"a">>],
                    [x |-> 2, attr |-> "dim", text |-> <<"a">>] >>
    /\ Len(InlineUncut) = 3

\* C24. Header truncation: for every header line and every max_width >= 0,
\* the text drawn for the header (decorative prefix + text, cut with a
\* trailing "..." when too long) has length <= max_width.
HeaderTruncation ==
    (mpc = "line" /\ mwidth >= 0 /\ header_match(mtext)) =>
        \A i \in 1..Len(mwrites) : Len(mwrites[i].text) <= mwidth

\* the rows of the tags table that hold the name a name normalizes to
SameTag(a, b) == lower(strip(a)) = lower(strip(b))

\* the names of a list as set_entry_tags stores them: stripped, lower-cased,
\* without the empty ones, each once, in the order of the names
StoredNames(names) ==
    LET S == {lower(strip(names[i])) : i \in 1..Len(names)} \ {""}
        rows == by_name({<<n, 0>> : n \in S})
    IN  [i \in 1..Len(rows) |-> rows[i][1]]

\* C25. set_entry_tags replaces: after set_entry_tags(e, T) returns True,
\* get_entry_tags(e) is exactly the sorted list of distinct non-empty names
\* of T after strip and lower-casing, whatever tags e had before (T = []
\* clears them), and the tags of every other entry are unchanged.
SetEntryTagsReplaces ==
    db_call.op # "none" =>
        \A before \in {[o \in 1..MaxEntryId |-> get_entry_tags(Db, o)]} :
            \A e \in DOMAIN entries, T \in TagLists :
                \A r \in {set_entry_tags(Db, e, T)} :
                    r.ok =>
                       /\ get_entry_tags(r.db, e) = StoredNames(T)
                       /\ \A other \in (1..MaxEntryId) \ {e} :
                              get_entry_tags(r.db, other) = before[other]

\* entry 2 has the tag "home" and entry 1, which has two, was just given its
\* tags; a list with a repeated name then leaves entry 1 with "work" alone
SetEntryTagsReplacesWitness ==
    /\ db_call.op = "set_entry_tags"
    /\ db_call.e = 1
    /\ get_entry_tags(Db, 1) = <<"home", "work">>
    /\ get_entry_tags(Db, 2) = <<"home">>
    /\ get_entry_tags(set_entry_tags(Db, 1, <<"Work ", "work">>).db, 1) = <<"work">>

\* C26. Tag identity is case-insensitive and get_or_create_tag is idempotent:
\* two calls with names that are equal after strip and lower-casing return
\* the same tag id, and after any sequence of operations the tags table never
\* holds two rows with the same normalized name.
TagIdentity ==
    /\ \A a, b \in DbNames :
           SameTag(a, b) =>
               LET first == get_or_create_tag(Db, a)
                   second == get_or_create_tag(first.db, b)
               IN  second.id = first.id /\ second.db = first.db
    /\ \A s, t \in DOMAIN tags : SameTag(tags[s], tags[t]) => s = t

\* "Work " asked for when "work" was stored as tag 1 and "home" as tag 2
TagIdentityWitness ==
    /\ db_call.op = "get_or_create_tag"
    /\ db_call.name = "Work "
    /\ db_call.id = 1
    /\ tags = (1 :> "work") @@ (2 :> "home")

\* C27. Tag counts match stored entries: after any sequence of add_entry_db,
\* set_entry_tags and delete_entry_db, for every tag the count returned by
\* get_all_tags equals the number of currently stored entries carrying that
\* tag (the length of get_entries_by_tag for that name); deleting an entry
\* removes its tag associations, so no entry_tags row refers to an entry
\* that no longer exists.
TagCounts ==
    /\ \A i \in 1..Len(get_all_tags(Db)) :
           get_all_tags(Db)[i][2] = Cardinality(get_entries_by_tag(Db, get_all_tags(Db)[i][1]))
    /\ \A p \in entry_tags : p[1] \in DOMAIN entries

\* C28. A new entry starts untagged: immediately after add_entry_db returns
\* id e, get_entry_tags(e) == [], after any prior sequence of add_entry_db,
\* set_entry_tags and delete_entry_db (an id of a deleted entry is never
\* given to a later entry).
NewEntryUntagged ==
    db_call.op = "add_entry_db" =>
        /\ get_entry_tags(Db, db_call.id) = <<>>
        /\ \A p \in entry_tags : p[1] # db_call.id

\* an entry added after a tagged entry was deleted
NewEntryUntaggedWitness ==
    /\ db_call.op = "add_entry_db"
    /\ db_call.id = 2
    /\ DOMAIN entries = {2}
    /\ DOMAIN tags # {}

\* the display lines of the buffer at the width of the editor
DisplayLines == get_display_lines(lines, edit_w)

\* C29. The displayed cursor points at the logical cursor's character: for
\* every document, width > 0 and valid cursor with column < len(line), if
\* get_cursor_display_pos returns (row, col) then either col <
\* len(display[row]) and display[row][col] == line[column], or col ==
\* len(display[row]) and line[column] is the space that the wrap replaced by
\* a line break (also inside hard-split words and around leading or repeated
\* spaces). Any space of the line is accepted at the end of a row here, so a
\* violation is a character that is not the one displayed under the cursor.
CursorPointsAtCharacter ==
    (pc = "editing" /\ edit_w > 0 /\ cursor_col < Len(lines[cursor_line + 1])) =>
        LET row == cursor_display_pos[1]
            col == cursor_display_pos[2]
            ch == lines[cursor_line + 1][cursor_col + 1]
        IN  /\ row < Len(DisplayLines)
            /\ \/ col < Len(DisplayLines[row + 1]) /\ DisplayLines[row + 1][col + 1] = ch
               \/ col = Len(DisplayLines[row + 1]) /\ ch = SP

\* C30. Display position stays inside the layout: in every reachable editor
\* state, get_cursor_display_pos returns (row, col) with 0 <= row <
\* len(display_lines) as produced by get_display_lines, and 0 <= col <=
\* len(display_lines[row]) <= edit_w.
DisplayPosInside ==
    pc = "editing" =>
        LET row == cursor_display_pos[1]
            col == cursor_display_pos[2]
        IN  /\ 0 <= row
            /\ row < Len(DisplayLines)
            /\ 0 <= col
            /\ col <= Len(DisplayLines[row + 1])
            /\ Len(DisplayLines[row + 1]) <= edit_w

\* the cursor at the end of the second row of a hard-split word, below
\* another line
DisplayPosInsideWitness ==
    /\ pc = "editing"
    /\ edit_w = 2
    /\ Len(lines) = 2
    /\ lines[2] = <<"a", "a", "a">>
    /\ cursor_line = 1
    /\ cursor_col = 3
    /\ Len(DisplayLines) >= 3
    /\ cursor_display_pos[1] = Len(DisplayLines) - 1

\* the flat text of a buffer and the flat offset of its cursor
FlatText(b) == join(NL, b.lines)

RECURSIVE FlatBefore(_, _)
FlatBefore(ls, n) == IF n = 0 THEN 0 ELSE FlatBefore(ls, n - 1) + Len(ls[n]) + 1

FlatOffset(b) == FlatBefore(b.lines, b.cursor_line) + b.cursor_col

\* C31. Flat-buffer refinement: relating (lines, cursor) to the flat text
\* "\n".join(lines) and the flat offset of the cursor, every editing key acts
\* as the corresponding flat operation: a printable key inserts its character
\* at the offset and advances by 1; Enter inserts "\n" and advances by 1;
\* Backspace deletes the character before the offset and retreats by 1, or
\* does nothing at offset 0; Delete deletes the character at the offset, or
\* does nothing at the end; Left/Right move the offset by one, clamped to the
\* text.
FlatRefinement ==
    pc = "editing" =>
        LET t == FlatText(buf)
            o == FlatOffset(buf)
            after(key) == feed_key(buf, key).buffer
            Acts(key, text, offset) ==
                \A b \in {after(key)} : FlatText(b) = text /\ FlatOffset(b) = offset
        IN  /\ \A key \in FedKeys["printable"] : Acts(key, insert(t, o, chr(key)), o + 1)
            /\ \A key \in {KEY_ENTER, 10, 13} : Acts(key, insert(t, o, NL), o + 1)
            /\ \A key \in {KEY_BACKSPACE, 127, 8} :
                   IF o = 0 THEN Acts(key, t, 0) ELSE Acts(key, Without(t, o), o - 1)
            /\ IF o = Len(t) THEN Acts(KEY_DC, t, o) ELSE Acts(KEY_DC, Without(t, o + 1), o)
            /\ Acts(KEY_LEFT, t, IF o > 0 THEN o - 1 ELSE 0)
            /\ Acts(KEY_RIGHT, t, min(o + 1, Len(t)))

\* the cursor at the end of the first of two lines, before the line break
\* of the flat text: Right passes it, Delete removes it
FlatRefinementWitness ==
    /\ pc = "editing"
    /\ Len(lines) = 2
    /\ cursor_line = 0
    /\ cursor_col = Len(lines[1])
    /\ cursor_col > 0
    /\ FlatText(buf)[FlatOffset(buf) + 1] = NL
    /\ FlatOffset(right(buf)) = FlatOffset(buf) + 1
    /\ FlatText(delete(buf)) = lines[1] \o lines[2]

\* the drawn row r shows a wrapped segment that is not the first of its
\* logical line
Continuation(r) ==
    /\ r.display_idx > 0
    /\ display_lines[r.display_idx + 1][4] = display_lines[r.display_idx][4]

\* C32. In the entry viewer, only the first wrapped segment of a logical line
\* can be rendered as a header or list item; every continuation segment of a
\* wrapped line is rendered as plain inline text, whatever characters it
\* starts with. Stated here for headers and list items: no continuation
\* segment is drawn as one.
FirstSegmentMarkdown ==
    vpc = "viewing" =>
        \A k \in 1..Len(drawn) :
            Continuation(drawn[k]) => drawn[k].style \notin {"header", "list"}

\* C33. Rule rendering matches fence toggling: in the entry viewer a display
\* row is drawn as a horizontal rule if and only if it is a logical line that
\* is a fence marker, i.e. exactly the rows that toggled fence parity for the
\* following lines; no row that left the parity unchanged is drawn as a rule.
RuleIffFence ==
    vpc = "viewing" =>
        \A k \in 1..Len(drawn) :
            drawn[k].style = "rule" <=> display_lines[drawn[k].display_idx + 1][3]

\* C34. Commit persists the buffer: when an edit session started by
\* edit_entry_screen ends with Commit (Escape), the stored content of that
\* entry afterwards equals the committed text "\n".join(lines), for every
\* buffer state at the moment of Commit, and the caller can tell this outcome
\* from Cancel.
CommitPersists ==
    (screen = "edit" /\ outcome = "Commit" /\ pc \in {"tags", "done"}) =>
        /\ entries[entry_id].content = result
        /\ message # "Edit cancelled. Press any key."

\* C35. Commit/open round trip: for every buffer reachable by editing,
\* opening a new session with the committed text as initial content yields
\* the same sequence of logical lines (with the cursor at the end of the last
\* line), so committing again without edits returns the same text.
CommitOpenRoundTrip ==
    pc = "editing" =>
        \A committed \in {feed_key(buf, ESCAPE)} :
            \A reopened \in {initial_buffer(committed.text)} :
                /\ committed.outcome = "Commit"
                /\ reopened.lines = lines
                /\ reopened.cursor_line = Len(lines) - 1
                /\ reopened.cursor_col = Len(lines[Len(lines)])
                /\ feed_key(reopened, ESCAPE).text = committed.text

\* the string s with its spaces deleted
NoSpaces(s) == SelectSeq(s, LAMBDA c : c # SP)

\* C36. Wrapping keeps the non-space characters: for every line and width >
\* 0, concatenating the segments of wrap_text(line, width) and deleting all
\* spaces gives the line with all spaces deleted; no non-space character is
\* dropped, duplicated or reordered, and an empty segment occurs only as the
\* sole segment [""].
WrapKeepsCharacters ==
    (wpc # "input" /\ wwidth > 0) =>
        /\ NoSpaces(Concat(wout)) = NoSpaces(wtext)
        /\ \A i \in 1..Len(wout) : wout[i] = <<>> => wout = << <<>> >>

\* a line with a leading space, a word that is hard-split and a word that
\* starts a new segment
WrapKeepsCharactersWitness ==
    /\ wpc # "input"
    /\ wwidth = 2
    /\ wtext = <<SP, "a", "b", "a", SP, "b">>
    /\ wout = << <<"a", "b">>, <<"a">>, <<"b">> >>

\* C37. Movement keys do not edit: Left, Right, Up, Down, Home and End never
\* change the sequence of logical lines or any line's content; only printable
\* keys, Tab, Backspace, Delete and Enter can change lines, and only Enter
\* (+1) and a line-joining Backspace/Delete (-1) change the number of lines.
MovementKeepsLines ==
    pc = "editing" =>
        \A key \in Keys :
            \A after \in {feed_key(buf, key).buffer} :
                LET name == branch(key)
                    joins == \/ name = "backspace" /\ cursor_col = 0 /\ cursor_line > 0
                             \/ /\ name = "delete"
                                /\ cursor_col >= Len(lines[cursor_line + 1])
                                /\ cursor_line < Len(lines) - 1
                IN  /\ name \notin {"printable", "tab", "backspace", "delete", "enter"}
                       => after.lines = lines
                    /\ Len(after.lines) = Len(lines)
                            + (IF name = "enter" THEN 1 ELSE IF joins THEN -1 ELSE 0)

\* the cursor at the start of the second of two lines: Up and Home move it,
\* Backspace joins the lines, Enter makes a third
MovementKeepsLinesWitness ==
    /\ pc = "editing"
    /\ Len(lines) = 2
    /\ cursor_line = 1
    /\ cursor_col = 0
    /\ up(buf) # buf
    /\ up(buf).lines = lines
    /\ down(buf) = buf
    /\ Len(backspace(buf).lines) = 1
    /\ Len(enter(buf).lines) = 3

\* ------------------------------------------- the navigation specification
\* main_tui_loop and the loops it calls, one step per key read and one per
\* return of a called screen to its caller
nav_frame == <<pc, screen, entry_id, title, editor_vars, outcome, result, message, hist,
               store0, wrap_vars, redraw_vars, view_vars, md_vars, db_call>>

max(x, y) == IF x >= y THEN x ELSE y

\* s[a:b] of Python for 0 <= a
pyslice(s, a, b) == SubSeq(s, a + 1, min(b, Len(s)))

\* get_all_entries_db: the ids of the rows, ORDER BY timestamp DESC (the
\* entry added last comes first)
get_all_entries_db(d) ==
    LET ids == DOMAIN d.entries
    IN  [i \in 1..Cardinality(ids) |->
            CHOOSE k \in ids : Cardinality({j \in ids : j > k}) = i - 1]

\* the mutant leaves selected_idx_on_page as the key handler left it
loop_top_mut(all_entries_data, page, per_page, selected) ==
    LET total_entries == Len(all_entries_data)
        pages == (total_entries + per_page - 1) \div per_page
        total == IF pages = 0 THEN 1 ELSE pages
        clamped == max(0, min(page, total - 1))
        count(p) == Len(pyslice(all_entries_data, p * per_page, (p + 1) * per_page))
        shown == IF count(clamped) = 0 /\ total_entries > 0 THEN max(0, clamped - 1)
                 ELSE clamped
    IN  [current_page |-> shown,
         total_pages |-> total,
         entries_on_this_page_count |-> count(shown),
         selected_idx_on_page |-> selected]

\* journal_entries_loop from the top of the loop to display_entries_list:
\* total_pages, the page and the selection brought back into range
loop_top(all_entries_data, page, per_page, selected) ==
    LET total_entries == Len(all_entries_data)
        pages == (total_entries + per_page - 1) \div per_page
        total == IF pages = 0 THEN 1 ELSE pages
        clamped == max(0, min(page, total - 1))
        count(p) == Len(pyslice(all_entries_data, p * per_page, (p + 1) * per_page))
        shown == IF count(clamped) = 0 /\ total_entries > 0 THEN max(0, clamped - 1)
                 ELSE clamped
    IN  [current_page |-> shown,
         total_pages |-> total,
         entries_on_this_page_count |-> count(shown),
         selected_idx_on_page |->
            max(0, min(selected, IF count(shown) > 0 THEN count(shown) - 1 ELSE 0))]

\* what display_entries_list returns: [] without entries, else the page
display_entries_list(all_entries_data, page, per_page, selected) ==
    IF all_entries_data = <<>> THEN <<>>
    ELSE pyslice(all_entries_data, page * per_page, page * per_page + per_page)

\* items_per_page = curses.LINES - 6, 1 if that is not positive
per_page_of(LINES) == IF LINES - 6 <= 0 THEN 1 ELSE LINES - 6

\* the heights of the terminal
TerminalLines == 6..MaxLines

\* the tables after a call
Tables(d) ==
    /\ entries' = d.entries
    /\ tags' = d.tags
    /\ entry_tags' = d.entry_tags
    /\ sqlite_sequence' = d.seq
    /\ UNCHANGED foreign_keys

\* the top of journal_entries_loop on the tables d, and the display
ShowList(d, page, per_page, selected) ==
    \E all \in {get_all_entries_db(d)} :
        \E t \in {loop_top(all, page, per_page, selected)} :
            /\ current_page' = t.current_page
            /\ items_per_page' = per_page
            /\ selected_idx_on_page' = t.selected_idx_on_page
            /\ total_pages' = t.total_pages
            /\ entries_on_this_page_count' = t.entries_on_this_page_count
            /\ paginated_entries' = display_entries_list(all, t.current_page, per_page,
                                                         t.selected_idx_on_page)

\* the loop now waiting at its getch, or none when main_tui_loop has ended
top == IF nav_stack = <<>> THEN "none" ELSE nav_stack[Len(nav_stack)]
Waiting(f) == top = f /\ nav_result = "running"
Returned(f) == top = f /\ nav_result \in {"None", "QUIT_APP"}
called(f) == Append(nav_stack, f)
returned == SubSeq(nav_stack, 1, Len(nav_stack) - 1)

\* the mutant goes on with the loop whatever the called screen returned
after_call_mut(res) == "loop"

\* if result == "QUIT_APP": return "QUIT_APP" (break in main_tui_loop)
after_call(res) == IF res = "QUIT_APP" THEN "leave" ELSE "loop"

\* confirm_action's prompts that ask about leaving
QuitPrompts ==
    {"Quit application? (y/N):", "Quit to main menu? (y/N):",
     "Are you sure you want to exit? (y/N):"}

EnterKeys == {"KEY_ENTER", "10", "13"}

\* the tables add_new_entry_screen can leave: nothing added (no title, no
\* content, cancelled) or an entry added, its tags left empty
add_new_entry_screen(d) ==
    IF d.seq.entries >= MaxListEntries THEN {d}
    ELSE {d, add_entry_db(d, "t", <<"a">>).db}

\* the ids tag_entries_loop can be given: the entries that carry a tag
tagged(d) == {p[1] : p \in {q \in d.entry_tags : q[1] \in DOMAIN d.entries
                                                  /\ q[2] \in DOMAIN d.tags}}

NavInit ==
    /\ \E c \in {<<"a">>} : Start(c)
    /\ WrapIdle
    /\ RedrawIdle
    /\ ViewIdle
    /\ MdIdle
    /\ DbIdle
    /\ nav_stack = <<"main_tui_loop">>
    /\ nav_result = "running"
    /\ getch = "none"
    /\ confirm_prompt = ""
    /\ current_main_menu_option = 0
    /\ ListIdle
    /\ entry_id_to_view = 0

\* ---- main_tui_loop
MainUp ==
    /\ Waiting("main_tui_loop")
    /\ getch' = "KEY_UP"
    /\ current_main_menu_option' = (current_main_menu_option - 1) % 5
    /\ UNCHANGED <<nav_frame, store_vars, nav_stack, nav_result, confirm_prompt, list_vars,
                   entry_id_to_view>>

MainDown ==
    /\ Waiting("main_tui_loop")
    /\ getch' = "KEY_DOWN"
    /\ current_main_menu_option' = (current_main_menu_option + 1) % 5
    /\ UNCHANGED <<nav_frame, store_vars, nav_stack, nav_result, confirm_prompt, list_vars,
                   entry_id_to_view>>

\* 'q' or 'Q' and the answer to confirm_action
MainQuit ==
    /\ Waiting("main_tui_loop")
    /\ getch' \in {"q", "Q"}
    /\ \E answer \in BOOLEAN :
        IF answer
        THEN /\ confirm_prompt' = "Quit application? (y/N):"
             /\ nav_stack' = <<>>
             /\ nav_result' = "exit"
        ELSE UNCHANGED <<confirm_prompt, nav_stack, nav_result>>
    /\ UNCHANGED <<nav_frame, store_vars, current_main_menu_option, list_vars,
                   entry_id_to_view>>

\* '?', 't', 'T', KEY_RESIZE and the keys no branch names
MainOther ==
    /\ Waiting("main_tui_loop")
    /\ getch' \in {"?", "t", "T", "KEY_RESIZE", "x"}
    /\ UNCHANGED <<nav_frame, store_vars, nav_stack, nav_result, confirm_prompt,
                   current_main_menu_option, list_vars, entry_id_to_view>>

\* Enter on View Entries: journal_entries_loop up to its first getch
MainViewEntries ==
    /\ Waiting("main_tui_loop")
    /\ current_main_menu_option = 0
    /\ getch' \in EnterKeys
    /\ nav_stack' = called("journal_entries_loop")
    /\ \E LINES \in TerminalLines : ShowList(Db, 0, per_page_of(LINES), 0)
    /\ UNCHANGED <<nav_frame, store_vars, nav_result, confirm_prompt,
                   current_main_menu_option, list_message, entry_id_to_view>>

\* Enter on Add New Entry
MainAddNewEntry ==
    /\ Waiting("main_tui_loop")
    /\ current_main_menu_option = 1
    /\ getch' \in EnterKeys
    /\ \E d \in add_new_entry_screen(Db) : Tables(d)
    /\ UNCHANGED <<nav_frame, nav_stack, nav_result, confirm_prompt,
                   current_main_menu_option, list_vars, entry_id_to_view>>

\* search_entries_screen: it returns None without a term or without
\* results, else it is search_results_loop
search_entries_screen ==
    \/ UNCHANGED <<nav_stack, nav_result>>
    \/ /\ DOMAIN entries # {}
       /\ nav_stack' = called("search_results_loop")
       /\ UNCHANGED nav_result

\* Enter on Search Entries
MainSearchEntries ==
    /\ Waiting("main_tui_loop")
    /\ current_main_menu_option = 2
    /\ getch' \in EnterKeys
    /\ search_entries_screen
    /\ UNCHANGED <<nav_frame, store_vars, confirm_prompt, current_main_menu_option,
                   list_vars, entry_id_to_view>>

\* Enter on Filter by Tag: filter_by_tag_screen returns None without tags
MainFilterByTag ==
    /\ Waiting("main_tui_loop")
    /\ current_main_menu_option = 3
    /\ getch' \in EnterKeys
    /\ nav_stack' = IF get_all_tags(Db) = <<>> THEN nav_stack
                    ELSE called("filter_by_tag_screen")
    /\ UNCHANGED <<nav_frame, store_vars, nav_result, confirm_prompt,
                   current_main_menu_option, list_vars, entry_id_to_view>>

\* Enter on Exit and the answer to confirm_action
MainExit ==
    /\ Waiting("main_tui_loop")
    /\ current_main_menu_option = 4
    /\ getch' \in EnterKeys
    /\ \E answer \in BOOLEAN :
        IF answer
        THEN /\ confirm_prompt' = "Are you sure you want to exit? (y/N):"
             /\ nav_stack' = <<>>
             /\ nav_result' = "exit"
        ELSE UNCHANGED <<confirm_prompt, nav_stack, nav_result>>
    /\ UNCHANGED <<nav_frame, store_vars, current_main_menu_option, list_vars,
                   entry_id_to_view>>

\* a called loop has returned: break on "QUIT_APP"
MainResume ==
    /\ Returned("main_tui_loop")
    /\ getch' = "none"
    /\ IF after_call(nav_result) = "leave"
       THEN nav_stack' = <<>> /\ nav_result' = "exit"
       ELSE nav_result' = "running" /\ UNCHANGED nav_stack
    /\ UNCHANGED <<nav_frame, store_vars, confirm_prompt, current_main_menu_option,
                   list_vars, entry_id_to_view>>

\* ---- journal_entries_loop: the key's branch, then the top of the loop and
\* the display that follow it
entries_frame == <<nav_frame, nav_stack, nav_result, confirm_prompt,
                   current_main_menu_option, entry_id_to_view>>

EntriesUp ==
    /\ Waiting("journal_entries_loop")
    /\ getch' = "KEY_UP"
    /\ ShowList(Db, current_page, items_per_page, max(0, selected_idx_on_page - 1))
    /\ UNCHANGED <<entries_frame, store_vars, list_message>>

EntriesDown ==
    /\ Waiting("journal_entries_loop")
    /\ getch' = "KEY_DOWN"
    /\ ShowList(Db, current_page, items_per_page,
                IF entries_on_this_page_count > 0
                THEN min(entries_on_this_page_count - 1, selected_idx_on_page + 1)
                ELSE selected_idx_on_page)
    /\ UNCHANGED <<entries_frame, store_vars, list_message>>

EntriesLeft ==
    /\ Waiting("journal_entries_loop")
    /\ getch' = "KEY_LEFT"
    /\ IF current_page > 0
       THEN ShowList(Db, current_page - 1, items_per_page, 0)
       ELSE ShowList(Db, current_page, items_per_page, selected_idx_on_page)
    /\ UNCHANGED <<entries_frame, store_vars, list_message>>

EntriesRight ==
    /\ Waiting("journal_entries_loop")
    /\ getch' = "KEY_RIGHT"
    /\ IF current_page < total_pages - 1
       THEN ShowList(Db, current_page + 1, items_per_page, 0)
       ELSE ShowList(Db, current_page, items_per_page, selected_idx_on_page)
    /\ UNCHANGED <<entries_frame, store_vars, list_message>>

\* 'n' or 'N': add_new_entry_screen
EntriesNew ==
    /\ Waiting("journal_entries_loop")
    /\ getch' \in {"n", "N"}
    /\ \E d \in add_new_entry_screen(Db) :
        /\ Tables(d)
        /\ ShowList(d, current_page, items_per_page, selected_idx_on_page)
    /\ UNCHANGED <<entries_frame, list_message>>

\* 'b' or 'B': return
EntriesBack ==
    /\ Waiting("journal_entries_loop")
    /\ getch' \in {"b", "B"}
    /\ nav_stack' = returned
    /\ nav_result' = "None"
    /\ UNCHANGED <<nav_frame, store_vars, confirm_prompt, current_main_menu_option,
                   list_vars, entry_id_to_view>>

\* 'q' or 'Q' and the answer to confirm_action
EntriesQuit ==
    /\ Waiting("journal_entries_loop")
    /\ getch' \in {"q", "Q"}
    /\ \E answer \in BOOLEAN :
        IF answer
        THEN /\ confirm_prompt' = "Quit application? (y/N):"
             /\ nav_stack' = returned
             /\ nav_result' = "QUIT_APP"
             /\ UNCHANGED list_vars
        ELSE /\ ShowList(Db, current_page, items_per_page, selected_idx_on_page)
             /\ UNCHANGED <<confirm_prompt, nav_stack, nav_result, list_message>>
    /\ UNCHANGED <<nav_frame, store_vars, current_main_menu_option, entry_id_to_view>>

\* '?', 't', 'T' and the keys no branch names
EntriesOther ==
    /\ Waiting("journal_entries_loop")
    /\ getch' \in {"?", "t", "T", "x"}
    /\ ShowList(Db, current_page, items_per_page, selected_idx_on_page)
    /\ UNCHANGED <<entries_frame, store_vars, list_message>>

\* '/': search_entries_screen
EntriesSearch ==
    /\ Waiting("journal_entries_loop")
    /\ getch' = "/"
    /\ search_entries_screen
    /\ IF nav_stack' = nav_stack
       THEN /\ ShowList(Db, current_page, items_per_page, selected_idx_on_page)
            /\ UNCHANGED list_message
       ELSE UNCHANGED list_vars
    /\ UNCHANGED <<nav_frame, store_vars, confirm_prompt, current_main_menu_option,
                   entry_id_to_view>>

\* Enter: view_single_entry_screen on the selected row of paginated_entries
EntriesEnter ==
    /\ Waiting("journal_entries_loop")
    /\ getch' \in EnterKeys
    /\ IF /\ paginated_entries # <<>>
          /\ 0 <= selected_idx_on_page
          /\ selected_idx_on_page < Len(paginated_entries)
       THEN /\ entry_id_to_view' = paginated_entries[selected_idx_on_page + 1]
            /\ nav_stack' = called("view_single_entry_screen")
            /\ UNCHANGED list_vars
       ELSE /\ ShowList(Db, current_page, items_per_page, selected_idx_on_page)
            /\ UNCHANGED <<entry_id_to_view, nav_stack, list_message>>
    /\ UNCHANGED <<nav_frame, store_vars, nav_result, confirm_prompt,
                   current_main_menu_option>>

\* 'd' or 'D', the answer to confirm_action and delete_entry_db
EntriesDelete ==
    /\ Waiting("journal_entries_loop")
    /\ getch' \in {"d", "D"}
    /\ \E answer \in BOOLEAN :
        IF /\ paginated_entries # <<>>
           /\ 0 <= selected_idx_on_page
           /\ selected_idx_on_page < Len(paginated_entries)
           /\ answer
        THEN \E r \in {delete_entry_db(Db, paginated_entries[selected_idx_on_page + 1])} :
                /\ confirm_prompt' = "Delete"
                /\ Tables(r.db)
                /\ list_message' = IF r.ok THEN "Entry deleted. Press any key."
                                   ELSE "Failed to delete entry. Press any key."
                /\ ShowList(r.db, current_page, items_per_page,
                            IF /\ r.ok
                               /\ selected_idx_on_page >= Len(paginated_entries) - 1
                               /\ selected_idx_on_page > 0
                            THEN selected_idx_on_page - 1
                            ELSE selected_idx_on_page)
        ELSE /\ ShowList(Db, current_page, items_per_page, selected_idx_on_page)
             /\ UNCHANGED <<store_vars, confirm_prompt, list_message>>
    /\ UNCHANGED <<nav_frame, nav_stack, nav_result, current_main_menu_option,
                   entry_id_to_view, foreign_keys>>

\* KEY_RESIZE: items_per_page from the new curses.LINES
EntriesResize ==
    /\ Waiting("journal_entries_loop")
    /\ getch' = "KEY_RESIZE"
    /\ \E LINES \in TerminalLines :
        ShowList(Db, current_page, per_page_of(LINES), selected_idx_on_page)
    /\ UNCHANGED <<entries_frame, store_vars, list_message>>

\* a called screen has returned: return on "QUIT_APP", else the top of the
\* loop and the display
EntriesResume ==
    /\ Returned("journal_entries_loop")
    /\ getch' = "none"
    /\ IF after_call(nav_result) = "leave"
       THEN /\ nav_stack' = returned
            /\ nav_result' = "QUIT_APP"
            /\ UNCHANGED list_vars
       ELSE /\ nav_result' = "running"
            /\ ShowList(Db, current_page, items_per_page, selected_idx_on_page)
            /\ UNCHANGED <<nav_stack, list_message>>
    /\ UNCHANGED <<nav_frame, store_vars, confirm_prompt, current_main_menu_option,
                   entry_id_to_view>>

\* ---- search_results_loop, filter_by_tag_screen and tag_entries_loop: the
\* three loops page through a list made when they started
loop_frame == <<nav_frame, store_vars, current_main_menu_option, list_vars>>

ListLoops == {"search_results_loop", "filter_by_tag_screen", "tag_entries_loop"}

\* the arrow keys, KEY_RESIZE and the keys no branch names: they move within
\* the list
LoopMove(f) ==
    /\ Waiting(f)
    /\ getch' \in {"KEY_UP", "KEY_DOWN", "KEY_LEFT", "KEY_RIGHT", "KEY_RESIZE", "x"}
    /\ UNCHANGED <<loop_frame, nav_stack, nav_result, confirm_prompt, entry_id_to_view>>

\* 'b' or 'B': return None
LoopBack(f) ==
    /\ Waiting(f)
    /\ getch' \in {"b", "B"}
    /\ nav_stack' = returned
    /\ nav_result' = "None"
    /\ UNCHANGED <<loop_frame, confirm_prompt, entry_id_to_view>>

\* 'q' or 'Q' and the answer to confirm_action
LoopQuit(f) ==
    /\ Waiting(f)
    /\ getch' \in {"q", "Q"}
    /\ \E answer \in BOOLEAN :
        IF answer
        THEN /\ confirm_prompt' = "Quit application? (y/N):"
             /\ nav_stack' = returned
             /\ nav_result' = "QUIT_APP"
        ELSE UNCHANGED <<confirm_prompt, nav_stack, nav_result>>
    /\ UNCHANGED <<loop_frame, entry_id_to_view>>

\* a called screen has returned: return on "QUIT_APP", else loop
LoopResume(f) ==
    /\ Returned(f)
    /\ getch' = "none"
    /\ IF after_call(nav_result) = "leave"
       THEN nav_stack' = returned /\ nav_result' = "QUIT_APP"
       ELSE nav_result' = "running" /\ UNCHANGED nav_stack
    /\ UNCHANGED <<loop_frame, confirm_prompt, entry_id_to_view>>

\* Enter in search_results_loop: view_single_entry_screen on a row of the
\* results, which are stored entries
SearchEnter ==
    /\ Waiting("search_results_loop")
    /\ getch' \in EnterKeys
    /\ entry_id_to_view' \in DOMAIN entries
    /\ nav_stack' = called("view_single_entry_screen")
    /\ UNCHANGED <<loop_frame, nav_result, confirm_prompt>>

\* Enter in filter_by_tag_screen on a tag of get_all_tags: tag_entries_loop
\* if get_entries_by_tag finds entries, else a message
TagsEnter ==
    /\ Waiting("filter_by_tag_screen")
    /\ getch' \in EnterKeys
    /\ \E i \in DOMAIN get_all_tags(Db) :
        nav_stack' = IF get_entries_by_tag(Db, get_all_tags(Db)[i][1]) # {}
                     THEN called("tag_entries_loop")
                     ELSE nav_stack
    /\ UNCHANGED <<loop_frame, nav_result, confirm_prompt, entry_id_to_view>>

\* Enter in tag_entries_loop: view_single_entry_screen on a row of the
\* entries found
TagEntriesEnter ==
    /\ Waiting("tag_entries_loop")
    /\ getch' \in EnterKeys
    /\ entry_id_to_view' \in tagged(Db)
    /\ nav_stack' = called("view_single_entry_screen")
    /\ UNCHANGED <<loop_frame, nav_result, confirm_prompt>>

\* ---- view_single_entry_screen, as its callers see it
\* 'b' or 'B': break, return None
EntryBack ==
    /\ Waiting("view_single_entry_screen")
    /\ getch' \in {"b", "B"}
    /\ nav_stack' = returned
    /\ nav_result' = "None"
    /\ UNCHANGED <<loop_frame, confirm_prompt, entry_id_to_view>>

\* 'q' or 'Q' and the answer to confirm_action
EntryQuit ==
    /\ Waiting("view_single_entry_screen")
    /\ getch' \in {"q", "Q"}
    /\ \E answer \in BOOLEAN :
        IF answer
        THEN /\ confirm_prompt' = "Quit to main menu? (y/N):"
             /\ nav_stack' = returned
             /\ nav_result' = "QUIT_APP"
        ELSE UNCHANGED <<confirm_prompt, nav_stack, nav_result>>
    /\ UNCHANGED <<loop_frame, entry_id_to_view>>

\* 'e', 'E' (edit_entry_screen changes no id), KEY_UP, KEY_DOWN and the
\* keys no branch names
EntryStay ==
    /\ Waiting("view_single_entry_screen")
    /\ getch' \in {"e", "E", "KEY_UP", "KEY_DOWN", "x"}
    /\ UNCHANGED <<loop_frame, nav_stack, nav_result, confirm_prompt, entry_id_to_view>>

NavNext ==
    \/ MainUp \/ MainDown \/ MainQuit \/ MainOther \/ MainViewEntries
    \/ MainAddNewEntry \/ MainSearchEntries \/ MainFilterByTag \/ MainExit
    \/ MainResume
    \/ EntriesUp \/ EntriesDown \/ EntriesLeft \/ EntriesRight \/ EntriesNew
    \/ EntriesBack \/ EntriesQuit \/ EntriesOther \/ EntriesSearch \/ EntriesEnter
    \/ EntriesDelete \/ EntriesResize \/ EntriesResume
    \/ \E f \in ListLoops : LoopMove(f)
    \/ \E f \in ListLoops : LoopBack(f)
    \/ \E f \in ListLoops : LoopQuit(f)
    \/ \E f \in ListLoops : LoopResume(f)
    \/ SearchEnter \/ TagsEnter \/ TagEntriesEnter
    \/ EntryBack \/ EntryQuit \/ EntryStay

NavSpec == NavInit /\ [][NavNext]_vars

\* what the last display of journal_entries_loop showed, against the table
ListDisplayValid ==
    (\E i \in DOMAIN nav_stack : nav_stack[i] = "journal_entries_loop") =>
        \A all \in {get_all_entries_db(Db)} :
            /\ 0 <= current_page
            /\ current_page < total_pages
            /\ items_per_page >= 1
            /\ total_pages = max(1, (Len(all) + items_per_page - 1) \div items_per_page)
            /\ paginated_entries = pyslice(all, current_page * items_per_page,
                                           (current_page + 1) * items_per_page)
            /\ entries_on_this_page_count = Len(paginated_entries)
            /\ paginated_entries # <<>> =>
                /\ 0 <= selected_idx_on_page
                /\ selected_idx_on_page < Len(paginated_entries)
                /\ paginated_entries[selected_idx_on_page + 1] \in DOMAIN entries
            /\ all # <<>> => paginated_entries # <<>>

\* the entry the list opened is the selected row, and it is stored
EnterActsOnListed ==
    (/\ Len(nav_stack) >= 2
     /\ top = "view_single_entry_screen"
     /\ nav_stack[Len(nav_stack) - 1] = "journal_entries_loop")
    => /\ paginated_entries # <<>>
       /\ entry_id_to_view = paginated_entries[selected_idx_on_page + 1]
       /\ entry_id_to_view \in DOMAIN entries

\* a step that deletes deletes the row that was selected and shown, and
\* delete_entry_db never fails
DeleteActsOnListed ==
    /\ (DOMAIN entries' # DOMAIN entries /\ DOMAIN entries' \subseteq DOMAIN entries)
       => /\ paginated_entries # <<>>
          /\ DOMAIN entries \ DOMAIN entries' = {paginated_entries[selected_idx_on_page + 1]}
          /\ list_message' = "Entry deleted. Press any key."
    /\ list_message' # "Failed to delete entry. Press any key."

\* C38: at every display of journal_entries_loop 0 <= current_page <
\* total_pages and, on a page that is not empty, 0 <= selected_idx_on_page <
\* the number of entries on the page; Enter and D act on the selected entry,
\* which is stored and listed.
EntryListSelectionValid ==
    /\ [](ListDisplayValid /\ EnterActsOnListed)
    /\ [][DeleteActsOnListed]_vars

\* of three entries, one a page, the oldest (the one on the last page) was
\* deleted: the list shows the second of its two pages
EntryListSelectionValidWitness ==
    /\ Waiting("journal_entries_loop")
    /\ DOMAIN entries = {2, 3}
    /\ list_message = "Entry deleted. Press any key."
    /\ sqlite_sequence.entries = 3
    /\ Cardinality(DOMAIN entries) = 2
    /\ items_per_page = 1
    /\ current_page = 1
    /\ total_pages = 2
    /\ selected_idx_on_page = 0

\* main_tui_loop has ended only after a confirm_action about leaving
\* returned True, and so has every loop that returned "QUIT_APP"
QuitConfirmed == nav_result \in {"exit", "QUIT_APP"} => confirm_prompt \in QuitPrompts

\* the caller of a screen that returned "QUIT_APP" reads no key and ends
QuitPropagates ==
    nav_result = "QUIT_APP" =>
        /\ getch' = "none"
        /\ nav_stack' = returned
        /\ nav_result' = IF nav_stack' = <<>> THEN "exit" ELSE "QUIT_APP"

====
